---- MODULE Spec2Model ----
(***************************************************************************)
(* dreamSort (HB_dreamSort.py): the DreamSort analyzer class.  A mod root  *)
(* directory holds one directory per mod; the directory name encodes load  *)
(* priority and the enabled/disabled state.  scan_and_analyze reads the    *)
(* tree, apply_new_order_threaded renames the directories in two phases,   *)
(* then writes mods.json and enabled.txt, reporting through a queue.       *)
(*                                                                         *)
(* Names are sequences of one-character strings, so that the regular       *)
(* expressions of the source act on the characters of a name.              *)
(***************************************************************************)
EXTENDS Integers, Sequences, FiniteSets, TLC

(***************************************************************************)
(* Bounds of the model.                                                    *)
(***************************************************************************)
\* the largest number of mod directories under the root in an initial tree,
\* and the largest number of entries of a desired order
MaxMods == 2
\* the number of apply runs in one behaviour
MaxApplies == 1

(***************************************************************************)
(* Characters and names.                                                   *)
(***************************************************************************)
Digits == {"0", "1", "2", "3", "4", "5", "6", "7", "8", "9"}

\* str.isdigit on one character
IsDigit(c) == c \in Digits

\* the characters [.!~] of the second alternative of strip_prefix's pattern
IsMarker(c) == c \in {".", "!", "~"}

\* code points of the characters the model uses (str comparison is by code point)
Ord(c) ==
    CASE c = " " -> 32 [] c = "!" -> 33 [] c = "." -> 46
      [] c = "<" -> 60 [] c = ">" -> 62
      [] c = "0" -> 48 [] c = "1" -> 49 [] c = "2" -> 50 [] c = "3" -> 51
      [] c = "4" -> 52 [] c = "5" -> 53 [] c = "6" -> 54 [] c = "7" -> 55
      [] c = "8" -> 56 [] c = "9" -> 57
      [] c = "A" -> 65 [] c = "B" -> 66 [] c = "C" -> 67 [] c = "D" -> 68
      [] c = "F" -> 70
      [] c = "M" -> 77 [] c = "R" -> 82 [] c = "X" -> 88
      [] c = "_" -> 95
      [] c = "a" -> 97 [] c = "b" -> 98 [] c = "c" -> 99 [] c = "d" -> 100
      [] c = "e" -> 101 [] c = "f" -> 102 [] c = "h" -> 104 [] c = "m" -> 109
      [] c = "n" -> 110 [] c = "o" -> 111 [] c = "p" -> 112 [] c = "r" -> 114
      [] c = "s" -> 115 [] c = "t" -> 116 [] c = "x" -> 120 [] c = "z" -> 122
      [] c = "~" -> 126

\* str.lower on one character
LowerChar(c) ==
    CASE c = "A" -> "a" [] c = "B" -> "b" [] c = "C" -> "c" [] c = "D" -> "d"
      [] c = "E" -> "e" [] c = "F" -> "f" [] c = "M" -> "m" [] c = "R" -> "r"
      [] c = "T" -> "t" [] c = "X" -> "x"
      [] OTHER -> c

\* str.lower
Lower(s) == [i \in 1..Len(s) |-> LowerChar(s[i])]

\* int(c) of a digit character
DigitVal(c) == Ord(c) - 48

\* the character of a digit value 0..9
DigitChar(d) == CHOOSE c \in Digits : DigitVal(c) = d

\* s without its first n characters (s[n:])
Drop(s, n) == SubSeq(s, n + 1, Len(s))

\* the length of the run of digits of s that starts at position i
RECURSIVE DigitRun(_, _)
DigitRun(s, i) == IF i <= Len(s) /\ IsDigit(s[i]) THEN 1 + DigitRun(s, i + 1) ELSE 0

\* the length of the run of [.!~] characters of s that starts at position i
RECURSIVE MarkerRun(_, _)
MarkerRun(s, i) == IF i <= Len(s) /\ IsMarker(s[i]) THEN 1 + MarkerRun(s, i + 1) ELSE 0

\* the length of the run of non-digits of s that starts at position i
RECURSIVE TextRun(_, _)
TextRun(s, i) == IF i <= Len(s) /\ ~IsDigit(s[i]) THEN 1 + TextRun(s, i + 1) ELSE 0

(***************************************************************************)
(* strip_prefix: re.match(r"^(?:\d+_)|(?:[.!~]+_?)", name), name[match.end():] *)
(***************************************************************************)
\* end of the match of ^\d+_ at position 0, or 0 when it does not match
DigitPrefixEnd(name) ==
    LET d == DigitRun(name, 1)
    IN IF d > 0 /\ d < Len(name) /\ name[d + 1] = "_" THEN d + 1 ELSE 0

\* end of the match of [.!~]+_? at position 0, or 0 when it does not match
MarkerPrefixEnd(name) ==
    LET m == MarkerRun(name, 1)
    IN IF m = 0 THEN 0
       ELSE IF m < Len(name) /\ name[m + 1] = "_" THEN m + 1 ELSE m

\* strip_prefix, except that the second alternative never takes the "_"
strip_prefix_KeepUnderscore(name) ==
    IF DigitPrefixEnd(name) > 0 THEN Drop(name, DigitPrefixEnd(name))
    ELSE Drop(name, MarkerRun(name, 1))

strip_prefix(name) ==
    IF DigitPrefixEnd(name) > 0 THEN Drop(name, DigitPrefixEnd(name))
    ELSE IF MarkerPrefixEnd(name) > 0 THEN Drop(name, MarkerPrefixEnd(name))
    ELSE name

(***************************************************************************)
(* The sort key of get_current_load_order:                                 *)
(* [int(c) if c.isdigit() else c for c in re.split("([0-9]+)", x)]          *)
(***************************************************************************)
\* the value of a run of digit characters
RECURSIVE IntOf(_)
IntOf(s) == IF s = <<>> THEN 0 ELSE 10 * IntOf(SubSeq(s, 1, Len(s) - 1)) + DigitVal(s[Len(s)])

\* re.split("([0-9]+)", x): text, digits, text, digits, ..., text
RECURSIVE SplitRuns(_)
SplitRuns(x) ==
    LET t == TextRun(x, 1)
        rest == Drop(x, t)
        d == DigitRun(rest, 1)
    IN IF d = 0 THEN <<SubSeq(x, 1, t)>>
       ELSE <<SubSeq(x, 1, t), SubSeq(rest, 1, d)>> \o SplitRuns(Drop(rest, d))

\* SortKey without int(c): the name is compared as text, digit by digit
SortKey_TextOnly(x) == <<x>>

\* the key: text runs stay character sequences, digit runs become integers
SortKey(x) ==
    LET parts == SplitRuns(x)
    IN [i \in 1..Len(parts) |-> IF i % 2 = 0 THEN IntOf(parts[i]) ELSE parts[i]]

\* str < str, by code point
RECURSIVE StrLess(_, _)
StrLess(a, b) ==
    IF b = <<>> THEN FALSE
    ELSE IF a = <<>> THEN TRUE
    ELSE IF Ord(a[1]) # Ord(b[1]) THEN Ord(a[1]) < Ord(b[1])
    ELSE StrLess(Tail(a), Tail(b))

\* list < list on two keys, from position i on
RECURSIVE KeyLessFrom(_, _, _)
KeyLessFrom(ka, kb, i) ==
    IF i > Len(kb) THEN FALSE
    ELSE IF i > Len(ka) THEN TRUE
    ELSE IF ka[i] = kb[i] THEN KeyLessFrom(ka, kb, i + 1)
    ELSE IF i % 2 = 0 THEN ka[i] < kb[i] ELSE StrLess(ka[i], kb[i])

KeyLess(a, b) == KeyLessFrom(SortKey(a), SortKey(b), 1)

\* list.sort(key=...) is stable: x is put after every element not greater than it
RECURSIVE InsertSorted(_, _)
InsertSorted(sorted, x) ==
    IF sorted = <<>> THEN <<x>>
    ELSE IF KeyLess(x, Head(sorted)) THEN <<x>> \o sorted
    ELSE <<Head(sorted)>> \o InsertSorted(Tail(sorted), x)

RECURSIVE NaturalSort(_)
NaturalSort(listing) ==
    IF listing = <<>> THEN <<>>
    ELSE InsertSorted(NaturalSort(SubSeq(listing, 1, Len(listing) - 1)),
                      listing[Len(listing)])


(***************************************************************************)
(* Fixed names of the program.                                             *)
(***************************************************************************)
\* "cheats", the literal of scan_and_analyze and of the cheat writer
CheatsName == <<"c", "h", "e", "a", "t", "s">>

\* "romfs"
RomfsName == <<"r", "o", "m", "f", "s">>

\* the "__temp_rename__" suffix of phase 1
TempSuffix == <<"_", "_", "t", "e", "m", "p", "_", "r", "e", "n", "a", "m", "e", "_", "_">>

\* f"{enabled_romfs_index:02d}": decimal digits, padded with zeros to two
RECURSIVE Decimal(_)
Decimal(n) == IF n < 10 THEN <<DigitChar(n)>> ELSE Decimal(n \div 10) \o <<DigitChar(n % 10)>>

Format02(n) == IF n < 10 THEN <<"0">> \o Decimal(n) ELSE Decimal(n)

(***************************************************************************)
(* The trees the model starts from.  A mod directory is a name, the names  *)
(* of its top-level entries and the relative paths of its files (a path is *)
(* a sequence of names).                                                   *)
(***************************************************************************)
ExefsName == <<"e", "f", "s">>
FileA == <<"a">>
FileB == <<"b">>

Templates ==
    << [name |-> <<"0", "1", "_", "A">>, top |-> {RomfsName},
        files |-> {<<RomfsName, FileA>>}],
       [name |-> <<"~", "B">>, top |-> {RomfsName, ExefsName},
        files |-> {<<RomfsName, FileA>>, <<RomfsName, FileB>>, <<ExefsName, FileA>>}],
       [name |-> <<"C">>, top |-> {CheatsName, ExefsName},
        files |-> {<<CheatsName, FileA>>, <<ExefsName, FileA>>}],
       [name |-> CheatsName, top |-> {}, files |-> {}],
       [name |-> <<"A">>, top |-> {RomfsName},
        files |-> {<<RomfsName, FileA>>}],
       [name |-> <<"~">> \o CheatsName, top |-> {}, files |-> {}] >>

\* a desired-order key that names no directory of any tree
AbsentKey == <<"0", "9", "_", "D">>

\* root paths (sequences of path segments): the host layout .../mods/contents/<id>, and another
RootPool ==
    { <<<<"r">>, <<"M", "o", "d", "s">>, <<"c", "o", "n", "t", "e", "n", "t", "s">>, <<"0", "1">>>>,
      <<<<"r">>, <<"m">>>> }

\* the pending cheat selections handed to apply: mod name -> cheat name -> flag
PendingPool ==
    { <<>>,
      (<<"C">> :> (<<"X">> :> TRUE @@ <<"A">> :> TRUE)) @@ (<<"D">> :> (<<"X">> :> TRUE @@ <<"B">> :> FALSE)),
      (<<"C">> :> (<<"X">> :> FALSE)) }

\* the largest initial tree of any specification
TreeMax == MaxMods + 1

\* directory identities: the initial mods, and one directory that each apply may create
ModIds == 1..(TreeMax + MaxApplies)

\* dirs[id].parent: 0 directly under the root, another id when moved inside it, Gone when absent
Gone == 0 - 1

VARIABLES
    \* the filesystem
    dirs,           \* id -> [parent, name]
    tree,           \* id -> [top, files], the fixed content of each directory
    enabled_txt,    \* id -> the file <id>/enabled.txt: its lines, or NoFile
    json_dir,       \* whether the directory of mods.json exists
    mods_json,      \* the file mods.json: its entries, or NoFile
    root,           \* the path of the mod root directory
    \* DreamSort
    mods_path, mods_json_path, load_order, mod_files, conflicts,
    cheat_only_mods, special_cheats_folder_name,
    \* one call of apply_new_order_threaded
    pc, ordered_mods_config, pending_cheats, progress_queue,
    current_mods, temp_map, final_mod_list, enabled_romfs_index, ops_done, idx,
    dirs0,          \* history: dirs when the call started
    \* the caller
    scanned,        \* a scan has run since the last apply
    applies,        \* the number of applies started
    call            \* a call of one of the helpers on its own: [fn, arg, stage, ...]

fsVars == <<dirs, tree, enabled_txt, json_dir, mods_json, root>>
scanVars == <<mods_path, mods_json_path, load_order, mod_files, conflicts,
              cheat_only_mods, special_cheats_folder_name>>
runVars == <<pc, ordered_mods_config, pending_cheats, progress_queue,
             current_mods, temp_map, final_mod_list, enabled_romfs_index, ops_done, idx,
             dirs0>>
objVars == <<fsVars, scanVars, runVars, scanned, applies>>
vars == <<fsVars, scanVars, runVars, scanned, applies, call>>

Absent == <<"absent">>

\* no helper is being called on its own
NoCall == [fn |-> "none"]

\* a file that does not exist, and a file holding content
NoFile == [exists |-> FALSE, content |-> <<>>]
File(content) == [exists |-> TRUE, content |-> content]

(***************************************************************************)
(* Filesystem helpers.                                                     *)
(***************************************************************************)
\* the directories directly under the root
TopIds(d) == {id \in ModIds : d[id].parent = 0}

\* the names os.listdir(mods_path) yields (directories only)
TopNames(d) == {d[id].name : id \in TopIds(d)}

\* the directory a top-level name denotes
IdOf(d, n) == CHOOSE id \in TopIds(d) : d[id].name = n

\* the directories moved inside directory id
Children(d, id) == {c \in ModIds : d[c].parent = id}

\* os.listdir(mod_path): the top-level entries of a mod directory
TopLevel(d, t, id) == t[id].top \cup {d[c].name : c \in Children(d, id)}

\* every ordering of a set of names (os.listdir guarantees no order)
RECURSIVE Listings(_)
Listings(S) ==
    IF S = {} THEN {<<>>}
    ELSE UNION { {<<n>> \o l : l \in Listings(S \ {n})} : n \in S }

\* shutil.move(src, dst) on two names under the root: the new dirs, or Absent when it raises.
\* An existing directory dst receives src inside it, unless it already has such an entry.
Move(d, t, src, dst) ==
    IF src \notin TopNames(d) THEN Absent
    ELSE IF dst \in TopNames(d)
         THEN IF src \in TopLevel(d, t, IdOf(d, dst)) THEN Absent
              ELSE [d EXCEPT ![IdOf(d, src)] = [parent |-> IdOf(d, dst), name |-> src]]
         ELSE [d EXCEPT ![IdOf(d, src)] = [parent |-> 0, name |-> dst]]


\* os.walk(mod_path) with every directory named "cheats" (in any case) pruned
RECURSIVE WalkFiles(_, _, _)
WalkFiles(d, t, id) ==
    {p \in t[id].files : \A i \in 1..(Len(p) - 1) : Lower(p[i]) # CheatsName}
    \cup UNION { {<<d[c].name>> \o p : p \in WalkFiles(d, t, c)} :
                 c \in {k \in Children(d, id) : Lower(d[k].name) # CheatsName} }

(***************************************************************************)
(* set_mods_path                                                           *)
(***************************************************************************)
GamesName == <<"g", "a", "m", "e", "s">>
ModsName == <<"m", "o", "d", "s">>
ContentsName == <<"c", "o", "n", "t", "e", "n", "t", "s">>
ModsJsonName == <<"m", "o", "d", "s", ".", "j", "s", "o", "n">>

\* the empty first segment of an absolute path ("/a".split("/") is ["", "a"])
RootSegment == <<>>

\* a path that is no directory
InvalidPath == <<<<"n">>>>

\* the mods.json path derived from a root path; <<>> stands for None
\* An absolute path splits into an empty first segment and its names; os.sep.join of that
\* segment alone is the empty string, which os.path.join then drops: the result is relative.
DeriveJsonPath(parts) ==
    LET n == Len(parts)
        above == SubSeq(parts, 1, n - 3)
        ryujinx_root_path == IF above = <<RootSegment>> THEN <<>> ELSE above
    IN IF n >= 3 /\ Lower(parts[n - 1]) = ContentsName /\ Lower(parts[n - 2]) = ModsName
       THEN ryujinx_root_path \o <<GamesName, parts[n], ModsJsonName>>
       ELSE <<>>

(***************************************************************************)
(* scan_and_analyze                                                        *)
(***************************************************************************)
\* the first name of the load order whose clean form is "cheats" in any case; <<>> stands for None
RECURSIVE FindSpecial(_)
FindSpecial(order) ==
    IF order = <<>> THEN <<>>
    ELSE IF Lower(strip_prefix(Head(order))) = CheatsName THEN Head(order)
    ELSE FindSpecial(Tail(order))

\* IsCheatOnly, except that a romfs entry is not looked for
IsCheatOnly_IgnoreRomfs(listing) ==
    LET lower == {Lower(e) : e \in listing}
    IN CheatsName \in lower

\* the cheat-only test on a top-level listing
IsCheatOnly(listing) ==
    LET lower == {Lower(e) : e \in listing}
    IN CheatsName \in lower /\ RomfsName \notin lower

\* file_to_mods_map[path]: the scanned mods providing path, in load order
Providers(order, files, path) ==
    LET Has(m) == m \in DOMAIN files /\ path \in files[m]
    IN SelectSeq(order, Has)

\* BuildConflicts, except that cheat-only providers are left out of the lists
BuildConflicts_OmitCheatOnly(order, files, cheatOnly) ==
    LET paths == UNION {files[m] : m \in DOMAIN files}
        shared == {p \in paths : Len(Providers(order, files, p)) > 1}
        subjects == {m \in DOMAIN files \ cheatOnly : \E p \in shared : p \in files[m]}
    IN [m \in subjects |->
          [p \in {q \in shared : q \in files[m]} |->
              LET Other(o) == o # m /\ o \notin cheatOnly
              IN SelectSeq(Providers(order, files, p), Other)]]

\* BuildConflicts, except that the subject stays in its own lists
BuildConflicts_KeepSelf(order, files, cheatOnly) ==
    LET paths == UNION {files[m] : m \in DOMAIN files}
        shared == {p \in paths : Len(Providers(order, files, p)) > 1}
        subjects == {m \in DOMAIN files \ cheatOnly : \E p \in shared : p \in files[m]}
    IN [m \in subjects |->
          [p \in {q \in shared : q \in files[m]} |-> Providers(order, files, p)]]

\* BuildConflicts, except that cheat-only mods get an entry like every other mod
BuildConflicts_CheatOnlyKeys(order, files, cheatOnly) ==
    LET paths == UNION {files[m] : m \in DOMAIN files}
        shared == {p \in paths : Len(Providers(order, files, p)) > 1}
        subjects == {m \in DOMAIN files : \E p \in shared : p \in files[m]}
    IN [m \in subjects |->
          [p \in {q \in shared : q \in files[m]} |->
              LET Other(o) == o # m
              IN SelectSeq(Providers(order, files, p), Other)]]

\* the conflict map built from the file sets
BuildConflicts(order, files, cheatOnly) ==
    LET paths == UNION {files[m] : m \in DOMAIN files}
        shared == {p \in paths : Len(Providers(order, files, p)) > 1}
        subjects == {m \in DOMAIN files \ cheatOnly : \E p \in shared : p \in files[m]}
    IN [m \in subjects |->
          [p \in {q \in shared : q \in files[m]} |->
              LET Other(o) == o # m
              IN SelectSeq(Providers(order, files, p), Other)]]

\* ScanEffectWith, except that the first unreadable mod ends the loop over the load order
ScanEffectWith_Abort(listing, unreadable) ==
    \E order \in {NaturalSort(listing)} :
    \E special \in {FindSpecial(order)} :
    \E reached \in {{order[i] : i \in {k \in 1..Len(order) :
                                         \A j \in 1..(k - 1) : order[j] \notin unreadable}}} :
    \E files \in {[m \in reached \ {special} |->
                     IF m \in unreadable THEN {} ELSE WalkFiles(dirs, tree, IdOf(dirs, m))]} :
    \E cheatOnly \in {{m \in DOMAIN files \ unreadable :
                         IsCheatOnly(TopLevel(dirs, tree, IdOf(dirs, m)))}} :
       /\ mods_path' = root
       /\ mods_json_path' = DeriveJsonPath(root)
       /\ load_order' = order
       /\ special_cheats_folder_name' = special
       /\ mod_files' = files
       /\ cheat_only_mods' = cheatOnly
       /\ conflicts' = BuildConflicts(order, files, cheatOnly)
       /\ scanned' = TRUE

\* ScanEffectWith, except that the results of the scan are added to the ones held
ScanEffectWith_KeepOld(listing, unreadable) ==
    \E order \in {NaturalSort(listing)} :
    \E special \in {FindSpecial(order)} :
    \E files \in {[m \in {order[i] : i \in 1..Len(order)} \ {special} |->
                     IF m \in unreadable THEN {} ELSE WalkFiles(dirs, tree, IdOf(dirs, m))]} :
    \E cheatOnly \in {{m \in DOMAIN files \ unreadable :
                         IsCheatOnly(TopLevel(dirs, tree, IdOf(dirs, m)))}} :
       /\ mods_path' = root
       /\ mods_json_path' = DeriveJsonPath(root)
       /\ load_order' = order
       /\ special_cheats_folder_name' = special
       /\ mod_files' = files
       /\ cheat_only_mods' = cheat_only_mods \cup cheatOnly
       /\ conflicts' = BuildConflicts(order, files, cheat_only_mods \cup cheatOnly)
       /\ scanned' = TRUE

\* set_mods_path(root) and scan_and_analyze, given what os.listdir(mods_path) yields and
\* the mods whose own listing raises OSError (lines 168-178: the mod keeps an empty file set)
ScanEffectWith(listing, unreadable) ==
    \E order \in {NaturalSort(listing)} :
    \E special \in {FindSpecial(order)} :
    \E files \in {[m \in {order[i] : i \in 1..Len(order)} \ {special} |->
                     IF m \in unreadable THEN {} ELSE WalkFiles(dirs, tree, IdOf(dirs, m))]} :
    \E cheatOnly \in {{m \in DOMAIN files \ unreadable :
                         IsCheatOnly(TopLevel(dirs, tree, IdOf(dirs, m)))}} :
       /\ mods_path' = root
       /\ mods_json_path' = DeriveJsonPath(root)
       /\ load_order' = order
       /\ special_cheats_folder_name' = special
       /\ mod_files' = files
       /\ cheat_only_mods' = cheatOnly
       /\ conflicts' = BuildConflicts(order, files, cheatOnly)
       /\ scanned' = TRUE

\* the scan when every mod directory is readable
ScanEffect(listing) == ScanEffectWith(listing, {})

\* run_scan: set_mods_path(path), then scan_and_analyze
RunScan(path) ==
    /\ pc = "Idle"
    /\ IF path # root
       THEN UNCHANGED <<scanVars, scanned>>
       ELSE \E listing \in Listings(TopNames(dirs)) : ScanEffect(listing)
    /\ UNCHANGED <<fsVars, runVars, applies, call>>

(***************************************************************************)
(* apply_new_order_threaded                                                *)
(***************************************************************************)
Event(type, text, arg, value) == [type |-> type, text |-> text, arg |-> arg, value |-> value]
Status(text) == Event("status", text, <<>>, <<>>)
Progress(text, arg, done, total) == Event("progress", text, arg, <<done, total>>)
Error(text, arg) == Event("error", text, arg, <<>>)
DoneEvent == Event("done", "", <<>>, <<>>)

\* progress_queue.put
Put(q, e) == Append(q, e)

\* the desired orders a caller may hand over: distinct keys among the scanned names and
\* one name that is not on disk, each with an enabled flag
OrderKeys == {load_order[i] : i \in 1..Len(load_order)} \cup {AbsentKey}

\* the orders of at most MaxMods entries of distinct keys
OrdersOver(keys) ==
    UNION { {o \in [1..n -> [name : keys, enabled : BOOLEAN]] :
                \A a, b \in 1..n : a # b => o[a].name # o[b].name} :
            n \in 0..MaxMods }

Orders == OrdersOver(OrderKeys)

\* lines 309-333: the call starts, lists the mod directories and announces phase 1
StartApply(order, pending, listing, listOk) ==
    /\ pc = "Idle"
    /\ scanned
    /\ applies' = applies + 1
    /\ scanned' = FALSE
    /\ ordered_mods_config' = order
    /\ pending_cheats' = pending
    /\ temp_map' = <<>>
    /\ final_mod_list' = <<>>
    /\ enabled_romfs_index' = 0
    /\ ops_done' = 0
    /\ idx' = 1
    /\ dirs0' = dirs
    /\ IF mods_path = <<>>
       THEN /\ progress_queue' = Put(<<>>, Error("Mods path not set.", <<>>))
            /\ current_mods' = <<>>
            /\ pc' = "Failed"
       ELSE IF ~listOk
       THEN /\ progress_queue' = Put(<<>>, Error("Failed to list mod directories", <<>>))
            /\ current_mods' = <<>>
            /\ pc' = "Failed"
       ELSE /\ progress_queue' = Put(<<>>, Status("Phase 1: Backing up current mods..."))
            /\ current_mods' = listing
            /\ pc' = "BackingUp"
    /\ UNCHANGED <<fsVars, scanVars, call>>

\* total_ops = len(current_mods) + len(ordered_mods_config)
TotalOps == Len(current_mods) + Len(ordered_mods_config)

\* temp_map[clean_name] = temp_name
SetTemp(map, clean, temp) ==
    [k \in DOMAIN map \cup {clean} |-> IF k = clean THEN temp ELSE map[k]]

\* BackupStep with the return of the except branches dropped: the loop goes on after a failure
BackupStep_NoHalt(renameOk) ==
    /\ pc = "BackingUp"
    /\ idx <= Len(current_mods)
    /\ LET mod_name == current_mods[idx]
           clean_name == strip_prefix(mod_name)
           temp_name == clean_name \o TempSuffix
           moved == IF renameOk THEN Move(dirs, tree, mod_name, temp_name) ELSE Absent
           q == Put(progress_queue, Progress("Backing up", mod_name, ops_done, TotalOps))
       IN IF moved # Absent
          THEN /\ dirs' = moved
               /\ temp_map' = SetTemp(temp_map, clean_name, temp_name)
               /\ ops_done' = ops_done + 1
               /\ progress_queue' = q
          ELSE /\ progress_queue' = Put(q, Error("Phase 1", mod_name))
               /\ UNCHANGED <<dirs, temp_map, ops_done>>
    /\ idx' = idx + 1
    /\ pc' = "BackingUp"
    /\ UNCHANGED <<tree, enabled_txt, json_dir, mods_json, root, scanVars, ordered_mods_config,
                   pending_cheats, current_mods, final_mod_list, enabled_romfs_index,
                   dirs0, scanned, applies, call>>

\* lines 334-362: one iteration of the phase-1 loop; renameOk is whether the OS lets the rename through
BackupStep(renameOk) ==
    /\ pc = "BackingUp"
    /\ idx <= Len(current_mods)
    /\ LET mod_name == current_mods[idx]
           clean_name == strip_prefix(mod_name)
           temp_name == clean_name \o TempSuffix
           moved == IF renameOk THEN Move(dirs, tree, mod_name, temp_name) ELSE Absent
           q == Put(progress_queue, Progress("Backing up", mod_name, ops_done, TotalOps))
       IN IF moved # Absent
          THEN /\ dirs' = moved
               /\ temp_map' = SetTemp(temp_map, clean_name, temp_name)
               /\ ops_done' = ops_done + 1
               /\ idx' = idx + 1
               /\ progress_queue' = q
               /\ pc' = "BackingUp"
          ELSE /\ progress_queue' = Put(q, Error("Phase 1", mod_name))
               /\ pc' = "Failed"
               /\ UNCHANGED <<dirs, temp_map, ops_done, idx>>
    /\ UNCHANGED <<tree, enabled_txt, json_dir, mods_json, root, scanVars, ordered_mods_config,
                   pending_cheats, current_mods, final_mod_list, enabled_romfs_index,
                   dirs0, scanned, applies, call>>

\* temp_map.pop(clean_name, None), the map that is left
PopTemp(map, clean) == [k \in DOMAIN map \ {clean} |-> map[k]]

\* BeginReorder without lines 368-376: the special cheats folder is not given its raw name back
BeginReorder_NoRestore(renameOk) ==
    /\ pc = "BackingUp"
    /\ idx > Len(current_mods)
    /\ progress_queue' = Put(progress_queue, Status("Phase 2: Applying new load order..."))
    /\ pc' = IF Len(ordered_mods_config) = 0 THEN "WritingMetadata" ELSE "Reordering"
    /\ idx' = 1
    /\ enabled_romfs_index' = 0
    /\ UNCHANGED <<fsVars, scanVars, temp_map, ordered_mods_config, pending_cheats, current_mods,
                   final_mod_list, ops_done, dirs0, scanned, applies, call>>

\* lines 364-378: phase 2 begins; the special cheats folder gets its raw name back
BeginReorder(renameOk) ==
    /\ pc = "BackingUp"
    /\ idx > Len(current_mods)
    /\ LET q == Put(progress_queue, Status("Phase 2: Applying new load order..."))
           clean_name == strip_prefix(special_cheats_folder_name)
           restore == special_cheats_folder_name # <<>> /\ clean_name \in DOMAIN temp_map
           moved == IF renameOk
                    THEN Move(dirs, tree, temp_map[clean_name], special_cheats_folder_name)
                    ELSE Absent
           next == IF Len(ordered_mods_config) = 0 THEN "WritingMetadata" ELSE "Reordering"
       IN IF ~restore
          THEN /\ progress_queue' = q
               /\ pc' = next
               /\ UNCHANGED <<dirs, temp_map>>
          ELSE IF moved # Absent
          THEN /\ dirs' = moved
               /\ temp_map' = PopTemp(temp_map, clean_name)
               /\ progress_queue' = q
               /\ pc' = next
          ELSE /\ temp_map' = PopTemp(temp_map, clean_name)
               /\ progress_queue' = Put(q, Error("Phase 2", special_cheats_folder_name))
               /\ pc' = "Failed"
               /\ UNCHANGED dirs
    /\ idx' = 1
    /\ enabled_romfs_index' = 0
    /\ UNCHANGED <<tree, enabled_txt, json_dir, mods_json, root, scanVars, ordered_mods_config,
                   pending_cheats, current_mods, final_mod_list, ops_done, dirs0, scanned, applies, call>>


\* ReorderStep with an except branch that returns without putting its error event
ReorderStep_SilentFailure(renameOk) ==
    /\ pc = "Reordering"
    /\ idx <= Len(ordered_mods_config)
    /\ LET mod_name == ordered_mods_config[idx].name
           is_enabled == ordered_mods_config[idx].enabled
           clean_name == strip_prefix(mod_name)
           skip == mod_name = special_cheats_folder_name \/ clean_name \notin DOMAIN temp_map
           temp_name == temp_map[clean_name]
           disable == mod_name \in cheat_only_mods \/ ~is_enabled
           index == IF disable THEN enabled_romfs_index ELSE enabled_romfs_index + 1
           final_name == IF disable THEN <<"~">> \o clean_name
                         ELSE Format02(index) \o <<"_">> \o clean_name
           moved == IF renameOk THEN Move(dirs, tree, temp_name, final_name) ELSE Absent
           q == Put(progress_queue, Progress("Writing", final_name, ops_done, TotalOps))
           next == IF idx = Len(ordered_mods_config) THEN "WritingMetadata" ELSE "Reordering"
       IN IF skip
          THEN /\ idx' = idx + 1
               /\ pc' = next
               /\ UNCHANGED <<dirs, final_mod_list, enabled_romfs_index, ops_done, progress_queue>>
          ELSE IF moved # Absent
          THEN /\ dirs' = moved
               /\ enabled_romfs_index' = index
               /\ final_mod_list' = Append(final_mod_list, [name |-> final_name, enabled |-> ~disable])
               /\ ops_done' = ops_done + 1
               /\ idx' = idx + 1
               /\ progress_queue' = q
               /\ pc' = next
          ELSE /\ enabled_romfs_index' = index
               /\ progress_queue' = q
               /\ pc' = "Failed"
               /\ UNCHANGED <<dirs, final_mod_list, ops_done, idx>>
    /\ UNCHANGED <<tree, enabled_txt, json_dir, mods_json, root, scanVars, ordered_mods_config,
                   pending_cheats, current_mods, temp_map, dirs0, scanned, applies, call>>

\* lines 379-412: one iteration of the phase-2 loop over the desired order
ReorderStep(renameOk) ==
    /\ pc = "Reordering"
    /\ idx <= Len(ordered_mods_config)
    /\ LET mod_name == ordered_mods_config[idx].name
           is_enabled == ordered_mods_config[idx].enabled
           clean_name == strip_prefix(mod_name)
           skip == mod_name = special_cheats_folder_name \/ clean_name \notin DOMAIN temp_map
           temp_name == temp_map[clean_name]
           disable == mod_name \in cheat_only_mods \/ ~is_enabled
           index == IF disable THEN enabled_romfs_index ELSE enabled_romfs_index + 1
           final_name == IF disable THEN <<"~">> \o clean_name
                         ELSE Format02(index) \o <<"_">> \o clean_name
           moved == IF renameOk THEN Move(dirs, tree, temp_name, final_name) ELSE Absent
           q == Put(progress_queue, Progress("Writing", final_name, ops_done, TotalOps))
           next == IF idx = Len(ordered_mods_config) THEN "WritingMetadata" ELSE "Reordering"
       IN IF skip
          THEN /\ idx' = idx + 1
               /\ pc' = next
               /\ UNCHANGED <<dirs, final_mod_list, enabled_romfs_index, ops_done, progress_queue>>
          ELSE IF moved # Absent
          THEN /\ dirs' = moved
               /\ enabled_romfs_index' = index
               /\ final_mod_list' = Append(final_mod_list, [name |-> final_name, enabled |-> ~disable])
               /\ ops_done' = ops_done + 1
               /\ idx' = idx + 1
               /\ progress_queue' = q
               /\ pc' = next
          ELSE /\ enabled_romfs_index' = index
               /\ progress_queue' = Put(q, Error("Phase 2", mod_name))
               /\ pc' = "Failed"
               /\ UNCHANGED <<dirs, final_mod_list, ops_done, idx>>
    /\ UNCHANGED <<tree, enabled_txt, json_dir, mods_json, root, scanVars, ordered_mods_config,
                   pending_cheats, current_mods, temp_map, dirs0, scanned, applies, call>>

(***************************************************************************)
(* _update_ryujinx_mods_json                                               *)
(***************************************************************************)
\* the entries written to mods.json: name, absolute path, enabled
ModEntries_EnabledOnly(list, path) ==
    LET IsOn(e) == e.enabled
        on == SelectSeq(list, IsOn)
    IN [i \in 1..Len(on) |->
          [name |-> on[i].name, path |-> Append(path, on[i].name), enabled |-> TRUE]]

\* the entries written to mods.json: name, absolute path, enabled
ModEntries(list, path) ==
    [i \in 1..Len(list) |->
        [name |-> list[i].name, path |-> Append(path, list[i].name), enabled |-> list[i].enabled]]

\* WriteMetadata with a write failure ending the run: phase 4 does not follow the error
WriteMetadata_FailureIsFatal(outcome) ==
    /\ pc = "WritingMetadata"
    /\ IF mods_json_path = <<>>
       THEN /\ progress_queue' = Put(progress_queue, Status("Skipping mods.json (path not found)."))
            /\ pc' = "WritingCheats"
            /\ UNCHANGED <<json_dir, mods_json>>
       ELSE LET q == Put(Put(progress_queue, Status("Phase 3: Updating Ryujinx mods.json...")),
                         Progress("Writing to mods.json", <<>>, 95, 100))
            IN CASE outcome = "ok" ->
                      /\ json_dir' = TRUE
                      /\ mods_json' = File(ModEntries(final_mod_list, mods_path))
                      /\ progress_queue' = q
                      /\ pc' = "WritingCheats"
                 [] outcome = "makedirs fails" ->
                      /\ progress_queue' = Put(q, Error("Could not write to mods.json file.", <<>>))
                      /\ pc' = "Failed"
                      /\ UNCHANGED <<json_dir, mods_json>>
                 [] outcome = "open fails" ->
                      /\ json_dir' = TRUE
                      /\ progress_queue' = Put(q, Error("Could not write to mods.json file.", <<>>))
                      /\ pc' = "Failed"
                      /\ UNCHANGED mods_json
    /\ UNCHANGED <<dirs, tree, enabled_txt, root, scanVars, ordered_mods_config, pending_cheats,
                   current_mods, temp_map, final_mod_list, enabled_romfs_index, ops_done, idx,
                   dirs0, scanned, applies, call>>

\* WriteMetadata with an unset mods_json_path treated as a failure that ends the run
WriteMetadata_SkipIsFatal(outcome) ==
    /\ pc = "WritingMetadata"
    /\ IF mods_json_path = <<>>
       THEN /\ progress_queue' = Put(progress_queue, Error("Skipping mods.json (path not found).", <<>>))
            /\ pc' = "Failed"
            /\ UNCHANGED <<json_dir, mods_json>>
       ELSE LET q == Put(Put(progress_queue, Status("Phase 3: Updating Ryujinx mods.json...")),
                         Progress("Writing to mods.json", <<>>, 95, 100))
            IN /\ pc' = "WritingCheats"
               /\ CASE outcome = "ok" ->
                         /\ json_dir' = TRUE
                         /\ mods_json' = File(ModEntries(final_mod_list, mods_path))
                         /\ progress_queue' = q
                    [] outcome = "makedirs fails" ->
                         /\ progress_queue' = Put(q, Error("Could not write to mods.json file.", <<>>))
                         /\ UNCHANGED <<json_dir, mods_json>>
                    [] outcome = "open fails" ->
                         /\ json_dir' = TRUE
                         /\ progress_queue' = Put(q, Error("Could not write to mods.json file.", <<>>))
                         /\ UNCHANGED mods_json
    /\ UNCHANGED <<dirs, tree, enabled_txt, root, scanVars, ordered_mods_config, pending_cheats,
                   current_mods, temp_map, final_mod_list, enabled_romfs_index, ops_done, idx,
                   dirs0, scanned, applies, call>>

\* the whole call; outcome is what the OS does to makedirs and open
WriteMetadata(outcome) ==
    /\ pc = "WritingMetadata"
    /\ IF mods_json_path = <<>>
       THEN /\ progress_queue' = Put(progress_queue, Status("Skipping mods.json (path not found)."))
            /\ UNCHANGED <<json_dir, mods_json>>
       ELSE LET q == Put(Put(progress_queue, Status("Phase 3: Updating Ryujinx mods.json...")),
                         Progress("Writing to mods.json", <<>>, 95, 100))
            IN CASE outcome = "ok" ->
                      /\ json_dir' = TRUE
                      /\ mods_json' = File(ModEntries(final_mod_list, mods_path))
                      /\ progress_queue' = q
                 [] outcome = "makedirs fails" ->
                      /\ progress_queue' = Put(q, Error("Could not write to mods.json file.", <<>>))
                      /\ UNCHANGED <<json_dir, mods_json>>
                 [] outcome = "open fails" ->
                      /\ json_dir' = TRUE
                      /\ progress_queue' = Put(q, Error("Could not write to mods.json file.", <<>>))
                      /\ UNCHANGED mods_json
    /\ pc' = "WritingCheats"
    /\ UNCHANGED <<dirs, tree, enabled_txt, root, scanVars, ordered_mods_config, pending_cheats,
                   current_mods, temp_map, final_mod_list, enabled_romfs_index, ops_done, idx,
                   dirs0, scanned, applies, call>>

(***************************************************************************)
(* _apply_cheat_selections_threaded                                        *)
(***************************************************************************)
\* CHEAT_BUILD_ID_PREFIX = "FB08F1D20FD1204F-"
CHEAT_BUILD_ID_PREFIX ==
    <<"F", "B", "0", "8", "F", "1", "D", "2", "0", "F", "D", "1", "2", "0", "4", "F", "-">>

\* f"{self.CHEAT_BUILD_ID_PREFIX}<{cheat_name} Cheat>\n", one line of enabled.txt
CheatLine(cheat_name) ==
    CHEAT_BUILD_ID_PREFIX \o <<"<">> \o cheat_name \o <<" ", "C", "h", "e", "a", "t", ">">>

\* AllEnabledCheats without the test of the flag: every cheat name of every mod
AllEnabledCheats_AnyFlag(pending) == UNION { DOMAIN pending[m] : m \in DOMAIN pending }

\* the union over all mods of the cheat names whose flag is true
AllEnabledCheats(pending) ==
    UNION { {c \in DOMAIN pending[m] : pending[m][c]} : m \in DOMAIN pending }

\* sorted(list(all_enabled_cheats))
RECURSIVE SortedNames(_)
SortedNames(S) ==
    IF S = {} THEN <<>>
    ELSE LET least == CHOOSE a \in S : \A b \in S \ {a} : StrLess(a, b)
         IN <<least>> \o SortedNames(S \ {least})

\* os.makedirs(<root>/<folder>, exist_ok=True): a missing folder becomes a new empty directory
MakeDir(d, folder) ==
    IF folder \in TopNames(d) THEN d
    ELSE LET new == CHOOSE id \in ModIds :
                      d[id].parent = Gone /\ \A k \in ModIds : d[k].parent = Gone => id <= k
         IN [d EXCEPT ![new] = [parent |-> 0, name |-> folder]]

\* WriteCheats with a write failure ending the run: no done event follows the error
WriteCheats_HaltOnFailure(outcome) ==
    /\ pc = "WritingCheats"
    /\ LET special_cheats_folder == IF special_cheats_folder_name # <<>>
                                    THEN special_cheats_folder_name ELSE CheatsName
           made == MakeDir(dirs, special_cheats_folder)
           sorted_cheats == SortedNames(AllEnabledCheats(pending_cheats))
           lines == [i \in 1..Len(sorted_cheats) |-> CheatLine(sorted_cheats[i])]
           failure == Error("Could not write cheats to enabled.txt.", <<>>)
       IN CASE outcome = "makedirs fails" ->
                 /\ progress_queue' = Put(progress_queue, failure)
                 /\ pc' = "Failed"
                 /\ UNCHANGED <<dirs, enabled_txt>>
            [] outcome = "open fails" ->
                 /\ dirs' = made
                 /\ progress_queue' =
                      IF pending_cheats = <<>> THEN Put(progress_queue, failure)
                      ELSE Put(Put(progress_queue, Status("Phase 4: Applying Cheat Selections...")),
                               failure)
                 /\ pc' = "Failed"
                 /\ UNCHANGED enabled_txt
            [] outcome = "ok" ->
                 /\ dirs' = made
                 /\ enabled_txt' =
                      [enabled_txt EXCEPT ![IdOf(made, special_cheats_folder)] =
                          File(IF pending_cheats = <<>> THEN <<>> ELSE lines)]
                 /\ progress_queue' =
                      IF pending_cheats = <<>>
                      THEN Put(progress_queue, Status("No cheats selected, cleared enabled.txt."))
                      ELSE Put(Put(progress_queue, Status("Phase 4: Applying Cheat Selections...")),
                               IF sorted_cheats # <<>>
                               THEN Status("Written cheats to enabled.txt")
                               ELSE Status("No cheats enabled - created empty enabled.txt"))
                 /\ pc' = "EmittingDone"
    /\ UNCHANGED <<tree, json_dir, mods_json, root, scanVars, ordered_mods_config, pending_cheats,
                   current_mods, temp_map, final_mod_list, enabled_romfs_index, ops_done, idx,
                   dirs0, scanned, applies, call>>

\* the whole call; outcome is what the OS does to makedirs and open
WriteCheats(outcome) ==
    /\ pc = "WritingCheats"
    /\ LET special_cheats_folder == IF special_cheats_folder_name # <<>>
                                    THEN special_cheats_folder_name ELSE CheatsName
           made == MakeDir(dirs, special_cheats_folder)
           sorted_cheats == SortedNames(AllEnabledCheats(pending_cheats))
           lines == [i \in 1..Len(sorted_cheats) |-> CheatLine(sorted_cheats[i])]
           failure == Error("Could not write cheats to enabled.txt.", <<>>)
       IN CASE outcome = "makedirs fails" ->
                 /\ progress_queue' = Put(progress_queue, failure)
                 /\ UNCHANGED <<dirs, enabled_txt>>
            [] outcome = "open fails" ->
                 /\ dirs' = made
                 /\ progress_queue' =
                      IF pending_cheats = <<>> THEN Put(progress_queue, failure)
                      ELSE Put(Put(progress_queue, Status("Phase 4: Applying Cheat Selections...")),
                               failure)
                 /\ UNCHANGED enabled_txt
            [] outcome = "ok" ->
                 /\ dirs' = made
                 /\ enabled_txt' =
                      [enabled_txt EXCEPT ![IdOf(made, special_cheats_folder)] =
                          File(IF pending_cheats = <<>> THEN <<>> ELSE lines)]
                 /\ progress_queue' =
                      IF pending_cheats = <<>>
                      THEN Put(progress_queue, Status("No cheats selected, cleared enabled.txt."))
                      ELSE Put(Put(progress_queue, Status("Phase 4: Applying Cheat Selections...")),
                               IF sorted_cheats # <<>>
                               THEN Status("Written cheats to enabled.txt")
                               ELSE Status("No cheats enabled - created empty enabled.txt"))
    /\ pc' = "EmittingDone"
    /\ UNCHANGED <<tree, json_dir, mods_json, root, scanVars, ordered_mods_config, pending_cheats,
                   current_mods, temp_map, final_mod_list, enabled_romfs_index, ops_done, idx,
                   dirs0, scanned, applies, call>>

\* EmitDone, except that the worker empties the cheat-only set and the cheat
\* selections it was given before it puts done
EmitDone_ClearsSelections ==
    /\ pc = "EmittingDone"
    /\ progress_queue' = Put(progress_queue, DoneEvent)
    /\ pc' = "Done"
    /\ cheat_only_mods' = {}
    /\ pending_cheats' = <<>>
    /\ UNCHANGED <<fsVars, mods_path, mods_json_path, load_order, mod_files, conflicts,
                   special_cheats_folder_name, ordered_mods_config, current_mods, temp_map,
                   final_mod_list, enabled_romfs_index, ops_done, idx, dirs0, scanned, applies, call>>

\* line 429: progress_queue.put({"type": "done"})
EmitDone ==
    /\ pc = "EmittingDone"
    /\ progress_queue' = Put(progress_queue, DoneEvent)
    /\ pc' = "Done"
    /\ UNCHANGED <<fsVars, scanVars, ordered_mods_config, pending_cheats, current_mods, temp_map,
                   final_mod_list, enabled_romfs_index, ops_done, idx, dirs0, scanned, applies, call>>

(***************************************************************************)
(* The caller, once the call has ended with its terminal event: the call's *)
(* arguments, locals and event stream end with it, and the caller rescans  *)
(* (check_apply_progress: set_ui_state("idle"), run_scan()).               *)
(***************************************************************************)
AfterApply ==
    /\ pc \in {"Done", "Failed"}
    /\ pc' = "Idle"
    /\ ordered_mods_config' = <<>>
    /\ pending_cheats' = <<>>
    /\ progress_queue' = <<>>
    /\ current_mods' = <<>>
    /\ temp_map' = <<>>
    /\ final_mod_list' = <<>>
    /\ enabled_romfs_index' = 0
    /\ ops_done' = 0
    /\ idx' = 1
    /\ dirs0' = <<>>
    /\ \E listing \in Listings(TopNames(dirs)) : ScanEffect(listing)
    /\ UNCHANGED <<fsVars, applies, call>>

(***************************************************************************)
(* The initial states: a DreamSort object just constructed, over a tree of *)
(* at most MaxMods of the template directories.                            *)
(***************************************************************************)
\* the k-th smallest element of a set of numbers
RECURSIVE Kth(_, _)
Kth(S, k) ==
    LET least == CHOOSE a \in S : \A b \in S : a <= b
    IN IF k = 1 THEN least ELSE Kth(S \ {least}, k - 1)

\* the root directory holding the templates S of the list T
TreeOf(T, S) ==
    /\ dirs = [id \in ModIds |->
                  IF id <= Cardinality(S)
                  THEN [parent |-> 0, name |-> T[Kth(S, id)].name]
                  ELSE [parent |-> Gone, name |-> <<>>]]
    /\ tree = [id \in ModIds |->
                  IF id <= Cardinality(S)
                  THEN [top |-> T[Kth(S, id)].top, files |-> T[Kth(S, id)].files]
                  ELSE [top |-> {}, files |-> {}]]
    /\ enabled_txt = [id \in ModIds |->
                  IF id <= Cardinality(S) /\ T[Kth(S, id)].name = CheatsName
                  THEN File(<<>>) ELSE NoFile]

\* no mods.json, nor its directory, exists yet
NoMetadata == json_dir = FALSE /\ mods_json = NoFile

\* a DreamSort object just constructed, beside a tree
Constructed ==
    /\ root \in RootPool
    /\ mods_path = <<>>
    /\ mods_json_path = <<>>
    /\ load_order = <<>>
    /\ mod_files = <<>>
    /\ conflicts = <<>>
    /\ cheat_only_mods = {}
    /\ special_cheats_folder_name = <<>>
    /\ pc = "Idle"
    /\ ordered_mods_config = <<>>
    /\ pending_cheats = <<>>
    /\ progress_queue = <<>>
    /\ current_mods = <<>>
    /\ temp_map = <<>>
    /\ final_mod_list = <<>>
    /\ enabled_romfs_index = 0
    /\ ops_done = 0
    /\ idx = 1
    /\ dirs0 = <<>>
    /\ scanned = FALSE
    /\ applies = 0

\* a DreamSort object just constructed, over the tree made of the templates S
ObjectOver(S) == TreeOf(Templates, S) /\ NoMetadata /\ Constructed

\* the state after construction, over the tree made of the templates S
InitOver(S) == ObjectOver(S) /\ call = NoCall

\* every tree of at most MaxMods templates
InitialTrees == {S \in SUBSET (1..Len(Templates)) : Cardinality(S) <= MaxMods}

Init == \E S \in InitialTrees : InitOver(S)

\* the trees of MaxMods + 1 directories in which 01_A and A, of one clean name, both occur
CollidingTrees ==
    {S \in SUBSET (1..Len(Templates)) : Cardinality(S) = TreeMax /\ {1, 5} \subseteq S}

InitColliding == \E S \in CollidingTrees : InitOver(S)

WriteOutcomes == {"ok", "makedirs fails", "open fails"}

Scan == \E path \in {root, InvalidPath} : RunScan(path)

Apply ==
    /\ pc = "Idle" /\ scanned /\ applies < MaxApplies
    /\ \E order \in Orders, pending \in PendingPool,
          listing \in Listings(TopNames(dirs)), listOk \in BOOLEAN :
            StartApply(order, pending, listing, listOk)

Backup == \E renameOk \in BOOLEAN : BackupStep(renameOk)

RestoreSpecial == \E renameOk \in BOOLEAN : BeginReorder(renameOk)

Reorder == \E renameOk \in BOOLEAN : ReorderStep(renameOk)

Metadata == \E outcome \in WriteOutcomes : WriteMetadata(outcome)

Cheats == \E outcome \in WriteOutcomes : WriteCheats(outcome)

Next ==
    \/ Scan \/ Apply \/ Backup \/ RestoreSpecial \/ Reorder \/ Metadata \/ Cheats \/ EmitDone
    \/ AfterApply

Spec == Init /\ [][Next]_vars

\* the same program over the trees with two directories of one clean name
SpecColliding == InitColliding /\ [][Next]_vars

\* the worker thread, once started, keeps running until it returns
WorkerStep == Backup \/ RestoreSpecial \/ Reorder \/ Metadata \/ Cheats \/ EmitDone

FairSpec == Spec /\ WF_vars(WorkerStep)

(***************************************************************************)
(* What can be observed of a call: its events and the directories.         *)
(***************************************************************************)
HasEvent(text) == \E i \in 1..Len(progress_queue) : progress_queue[i].text = text

HasType(type) == \E i \in 1..Len(progress_queue) : progress_queue[i].type = type

\* the mods.json step has begun: every path through it first puts one of these
MetadataStarted ==
    \/ HasEvent("Skipping mods.json (path not found).")
    \/ HasEvent("Phase 3: Updating Ryujinx mods.json...")

\* the enabled.txt step has begun and returned: every path through it puts one of these
CheatsStarted ==
    \/ HasEvent("No cheats selected, cleared enabled.txt.")
    \/ HasEvent("Phase 4: Applying Cheat Selections...")
    \/ HasEvent("Could not write cheats to enabled.txt.")

ReorderStarted == HasEvent("Phase 2: Applying new load order...")

DoneEmitted == HasType("done")

\* s ends with the temp suffix
IsTempName(s) ==
    Len(s) >= Len(TempSuffix) /\ SubSeq(s, Len(s) - Len(TempSuffix) + 1, Len(s)) = TempSuffix

\* a step that moves a directory of the root to its temp name (a phase-1 rename)
Phase1Rename ==
    \E id \in ModIds :
        /\ dirs[id].parent = 0 /\ dirs'[id] # dirs[id]
        /\ dirs'[id].name \in {dirs[id].name, strip_prefix(dirs[id].name) \o TempSuffix}
        /\ dirs'[id].parent # 0 \/ dirs'[id].name # dirs[id].name

\* a step that moves a temp-named directory of the root to another name (a phase-2 rename)
Phase2Rename ==
    \E id \in ModIds :
        /\ dirs[id].parent = 0 /\ IsTempName(dirs[id].name) /\ dirs'[id] # dirs[id]
        /\ dirs'[id].name # strip_prefix(dirs[id].name) \o TempSuffix

\* every listed mod directory has had its phase-1 rename, and none has failed
AllBackedUp ==
    /\ \A i \in 1..Len(current_mods) :
          \E k \in 1..Len(progress_queue) :
              progress_queue[k].text = "Backing up" /\ progress_queue[k].arg = current_mods[i]
    /\ ~HasType("error")

(***************************************************************************)
(* C1: the phases of a call run strictly in the order BackingUp,           *)
(* Reordering, WritingMetadata, WritingCheats, Done: no phase-2 rename     *)
(* before every phase-1 rename has succeeded and none after the mods.json  *)
(* step has begun, no phase-1 rename once phase 2 has begun, the           *)
(* enabled.txt step only after the mods.json step, and done only after the *)
(* enabled.txt step.                                                       *)
(***************************************************************************)
C1_PhaseOrder ==
    [][ /\ Phase1Rename => ~ReorderStarted
        /\ Phase2Rename => AllBackedUp /\ ReorderStarted' /\ ~MetadataStarted'
        /\ (~MetadataStarted /\ MetadataStarted') => ReorderStarted /\ ~CheatsStarted'
        /\ (mods_json' # mods_json \/ json_dir' # json_dir) => ~MetadataStarted /\ MetadataStarted'
        /\ (~CheatsStarted /\ CheatsStarted') => MetadataStarted /\ ~DoneEmitted'
        /\ (enabled_txt' # enabled_txt) => ~CheatsStarted /\ CheatsStarted'
        /\ (~DoneEmitted /\ DoneEmitted') => CheatsStarted
      ]_vars

\* a call that renamed in both phases, wrote mods.json and enabled.txt, and emitted done
C1_Witness ==
    /\ pc = "Done" /\ DoneEmitted
    /\ Len(final_mod_list) = 2
    /\ mods_json.exists
    /\ HasEvent("Written cheats to enabled.txt")

(***************************************************************************)
(* After phase 2: the entries of the desired order and their directories.  *)
(***************************************************************************)
\* phase 2 of the call has completed
Phase2Complete == pc \in {"WritingMetadata", "WritingCheats", "EmittingDone", "Done"}

Entries == 1..Len(ordered_mods_config)

\* entry i names a directory that was under the root when the call started
OnDisk(i) == ordered_mods_config[i].name \in TopNames(dirs0)

\* the directory entry i names
EntryDir(i) == IdOf(dirs0, ordered_mods_config[i].name)

IsSpecial(i) == ordered_mods_config[i].name = special_cheats_folder_name

\* entry i is to be numbered: on disk, not special, not cheat-only, enabled
Numbered(i) ==
    /\ OnDisk(i) /\ ~IsSpecial(i)
    /\ ordered_mods_config[i].name \notin cheat_only_mods
    /\ ordered_mods_config[i].enabled

\* entry i is to be disabled: on disk, not special, cheat-only or not enabled
Disabled(i) ==
    /\ OnDisk(i) /\ ~IsSpecial(i)
    /\ ordered_mods_config[i].name \in cheat_only_mods \/ ~ordered_mods_config[i].enabled

\* the 1-based rank of entry i among the entries to be numbered
Rank(i) == Cardinality({j \in 1..i : Numbered(j)})

\* directory id lies directly under the root under the name n
Named(id, n) == dirs[id] = [parent |-> 0, name |-> n]

\* a call is under way, and when it started no two directories under the root had
\* the same clean name and none was left under a temp name by an earlier run
CleanNamesDistinct ==
    /\ pc # "Idle"
    /\ \A a, b \in TopIds(dirs0) :
          a # b => strip_prefix(dirs0[a].name) # strip_prefix(dirs0[b].name)
    /\ \A a \in TopIds(dirs0) : ~IsTempName(dirs0[a].name)

(***************************************************************************)
(* C2: after an apply that completes phase 2, every entry of the desired   *)
(* order that is on disk, not the special cheats folder, not cheat-only    *)
(* and enabled is named <NN>_<cleanName>, NN its two-digit 1-based rank    *)
(* among exactly those entries.                                            *)
(***************************************************************************)
C2_Numbering ==
    Phase2Complete =>
        \A i \in Entries :
            Numbered(i) =>
                Named(EntryDir(i),
                      Format02(Rank(i)) \o <<"_">> \o strip_prefix(ordered_mods_config[i].name))

\* C2 on the trees whose clean names are distinct
C2_NumberingDistinct == CleanNamesDistinct => C2_Numbering

(***************************************************************************)
(* C3: after an apply that completes phase 2, every entry (other than the  *)
(* special cheats folder) that is on disk and is cheat-only or not enabled *)
(* is named ~<cleanName>, and its Final Mod Record has enabled = false.    *)
(***************************************************************************)
C3_Disabling ==
    Phase2Complete =>
        \A i \in Entries :
            Disabled(i) =>
                LET final == <<"~">> \o strip_prefix(ordered_mods_config[i].name)
                IN /\ Named(EntryDir(i), final)
                   /\ \E k \in 1..Len(final_mod_list) :
                         final_mod_list[k] = [name |-> final, enabled |-> FALSE]

\* C3 on the trees whose clean names are distinct
C3_DisablingDistinct == CleanNamesDistinct => C3_Disabling

(***************************************************************************)
(* C4: after an apply that completes phase 2, the directory the last scan  *)
(* identified as the special cheats folder lies under the root under the   *)
(* raw name it had at scan time, and is not in the Final Mod Records.      *)
(***************************************************************************)
C4_SpecialPreserved ==
    (Phase2Complete /\ special_cheats_folder_name # <<>>) =>
        /\ Named(IdOf(dirs0, special_cheats_folder_name), special_cheats_folder_name)
        /\ \A k \in 1..Len(final_mod_list) :
              final_mod_list[k].name # special_cheats_folder_name

\* C4 on the trees whose clean names are distinct
C4_SpecialPreservedDistinct == CleanNamesDistinct => C4_SpecialPreserved

(***************************************************************************)
(* C5: the special cheats folder is never numbered and never               *)
(* disabled-prefixed: in every state, for any initial set of directory     *)
(* names, the on-disk name of the folder that scan identifies as the       *)
(* special cheats folder carries neither a <digits>_ prefix nor a ~ prefix.*)
(***************************************************************************)
C5_NeverPrefixed ==
    (special_cheats_folder_name # <<>> /\ special_cheats_folder_name \in TopNames(dirs)) =>
        /\ DigitPrefixEnd(special_cheats_folder_name) = 0
        /\ Head(special_cheats_folder_name) # "~"

\* the directory the last scan identified as the special cheats folder
SpecialDir == IdOf(dirs0, special_cheats_folder_name)

(***************************************************************************)
(* C5, amended: an apply gives the special cheats folder no prefix.  While *)
(* a call runs and after it, the directory the preceding scan identified   *)
(* as special is named its scan-time raw name or, between its phase-1      *)
(* rename and the restore that opens phase 2, <cleanName>__temp_rename__;  *)
(* once phase 2 has completed it has its scan-time raw name.  The raw name *)
(* may itself carry a prefix.                                              *)
(***************************************************************************)
C5_ApplyAddsNoPrefix ==
    (pc # "Idle" /\ special_cheats_folder_name # <<>>
       /\ special_cheats_folder_name \in TopNames(dirs0)) =>
        /\ dirs[SpecialDir].name \in
              {special_cheats_folder_name, strip_prefix(special_cheats_folder_name) \o TempSuffix}
        /\ pc \in {"Reordering", "WritingMetadata", "WritingCheats", "EmittingDone", "Done"} =>
              dirs[SpecialDir].name = special_cheats_folder_name

\* a finished call that numbered a mod, run on a root whose special cheats folder is ~cheats
C5_Witness ==
    /\ pc = "Done"
    /\ special_cheats_folder_name = <<"~">> \o CheatsName
    /\ \E k \in 1..Len(final_mod_list) : final_mod_list[k].enabled
    /\ Named(SpecialDir, special_cheats_folder_name)

(***************************************************************************)
(* Failed runs.                                                            *)
(***************************************************************************)
\* the event the worker put last
LastEvent == progress_queue[Len(progress_queue)]

\* the number of terminal events (error, done) on the queue
Terminals == Cardinality({k \in 1..Len(progress_queue) : progress_queue[k].type \in {"error", "done"}})

\* the call has halted on a failed rename of the phase-1 loop; idx is the failing position
Phase1Failed == pc = "Failed" /\ HasEvent("Phase 1")

\* the call has halted on a failed rename of phase 2 (the restore or the loop)
Phase2Failed == pc = "Failed" /\ HasEvent("Phase 2")

\* the directory the i-th listed name denoted when the call started
ListedDir(i) == IdOf(dirs0, current_mods[i])

(***************************************************************************)
(* C6: if the rename of the k-th listed mod fails in phase 1 the operation *)
(* halts at once: the k-1 mods renamed before it keep their                *)
(* <cleanName>__temp_rename__ names, the k-th and every later listed mod   *)
(* keep their raw names, an error event is emitted (the last event and the *)
(* only terminal one), and the run has no phase-2 rename, no mods.json     *)
(* write, no enabled.txt write and no done event: phase 2, the mods.json   *)
(* step and the enabled.txt step have not begun, and the only step left is *)
(* the caller's, which leaves the filesystem alone.                        *)
(***************************************************************************)
C6_Phase1Halt ==
    [][ Phase1Failed =>
          /\ \A i \in 1..(idx - 1) :
                Named(ListedDir(i), strip_prefix(current_mods[i]) \o TempSuffix)
          /\ \A i \in idx..Len(current_mods) : Named(ListedDir(i), current_mods[i])
          /\ LastEvent.type = "error" /\ Terminals = 1
          /\ ~ReorderStarted /\ ~MetadataStarted /\ ~CheatsStarted /\ ~DoneEmitted
          /\ pc' = "Idle" /\ UNCHANGED fsVars
      ]_vars

\* C6 on the trees whose clean names are distinct
C6_Phase1HaltDistinct ==
    [][ CleanNamesDistinct =>
          (Phase1Failed =>
             /\ \A i \in 1..(idx - 1) :
                   Named(ListedDir(i), strip_prefix(current_mods[i]) \o TempSuffix)
             /\ \A i \in idx..Len(current_mods) : Named(ListedDir(i), current_mods[i])
             /\ LastEvent.type = "error" /\ Terminals = 1
             /\ ~ReorderStarted /\ ~MetadataStarted /\ ~CheatsStarted /\ ~DoneEmitted
             /\ pc' = "Idle" /\ UNCHANGED fsVars)
      ]_vars

\* the final name phase 2 gives entry j of the desired order
FinalName(j) ==
    IF Numbered(j) THEN Format02(Rank(j)) \o <<"_">> \o strip_prefix(ordered_mods_config[j].name)
    ELSE <<"~">> \o strip_prefix(ordered_mods_config[j].name)

\* the rename that failed is the restore of the special cheats folder
RestoreFailed ==
    special_cheats_folder_name # <<>> /\ LastEvent.arg = special_cheats_folder_name

\* the name a directory of the root is to have when phase 2 has halted at entry idx:
\* its final name if phase 2 has renamed it, its temp name otherwise
HaltedName(id) ==
    LET raw == dirs0[id].name
    IN IF raw = special_cheats_folder_name
       THEN IF RestoreFailed THEN strip_prefix(raw) \o TempSuffix ELSE raw
       ELSE IF \E j \in 1..(idx - 1) : ordered_mods_config[j].name = raw
       THEN FinalName(CHOOSE j \in 1..(idx - 1) : ordered_mods_config[j].name = raw)
       ELSE strip_prefix(raw) \o TempSuffix

(***************************************************************************)
(* C7: if a rename fails in phase 2 the operation halts at once: the mods  *)
(* already renamed to their final names keep them, the failing mod and     *)
(* every mod not yet processed remain under their __temp_rename__ names,   *)
(* an error event is emitted (the last event and the only terminal one),   *)
(* and neither the mods.json write nor the enabled.txt write nor a done    *)
(* event occurs: those steps have not begun, and the only step left is the *)
(* caller's, which leaves the filesystem alone.                            *)
(***************************************************************************)
C7_Phase2Halt ==
    [][ Phase2Failed =>
          /\ \A id \in TopIds(dirs0) : Named(id, HaltedName(id))
          /\ LastEvent.type = "error" /\ Terminals = 1
          /\ ~MetadataStarted /\ ~CheatsStarted /\ ~DoneEmitted
          /\ pc' = "Idle" /\ UNCHANGED fsVars
      ]_vars

\* C7 on the trees whose clean names are distinct
C7_Phase2HaltDistinct ==
    [][ CleanNamesDistinct =>
          (Phase2Failed =>
             /\ \A id \in TopIds(dirs0) : Named(id, HaltedName(id))
             /\ LastEvent.type = "error" /\ Terminals = 1
             /\ ~MetadataStarted /\ ~CheatsStarted /\ ~DoneEmitted
             /\ pc' = "Idle" /\ UNCHANGED fsVars)
      ]_vars

(***************************************************************************)
(* C8: error and done are terminal events of the progress channel: once    *)
(* the worker has put an error or a done it puts no further event, so a    *)
(* terminal event is always the last event on the queue, and a run that    *)
(* has ended has put exactly one terminal event; this for failures in      *)
(* every phase, the mods.json write and the enabled.txt write included.    *)
(***************************************************************************)
C8_TerminalEvents ==
    /\ \A k \in 1..Len(progress_queue) :
          progress_queue[k].type \in {"error", "done"} => k = Len(progress_queue)
    /\ pc \in {"Done", "Failed"} => Terminals = 1

\* C8 for the runs in which neither the mods.json step nor the enabled.txt step fails
C8_TerminalEventsNoWriteFailure ==
    (~HasEvent("Could not write to mods.json file.") /\ ~HasEvent("Could not write cheats to enabled.txt."))
        => C8_TerminalEvents

\* the run has ended with done as its last event, after the enabled.txt step
DoneAfterCheats == pc = "Done" /\ CheatsStarted /\ LastEvent.type = "done"

(***************************************************************************)
(* C9: whenever phases 1 and 2 of an apply complete without a rename       *)
(* failure, a done event is eventually emitted after phase 4, both when    *)
(* phase 3 executes (root recognized as host layout) and when phase 3 is   *)
(* skipped.                                                                *)
(***************************************************************************)
C9_DoneEventually ==
    /\ (pc = "WritingMetadata" /\ mods_json_path # <<>>)
          ~> (DoneAfterCheats /\ HasEvent("Phase 3: Updating Ryujinx mods.json..."))
    /\ (pc = "WritingMetadata" /\ mods_json_path = <<>>)
          ~> (DoneAfterCheats /\ HasEvent("Skipping mods.json (path not found)."))

\* a run on a recognized root that renamed a mod, wrote mods.json and ended with done
C9_Witness ==
    /\ DoneAfterCheats
    /\ mods_json_path # <<>> /\ mods_json.exists
    /\ Len(final_mod_list) >= 1

(***************************************************************************)
(* C10: when the root was not recognized as .../mods/contents/<id>         *)
(* (mods_json_path is unset), phase 3 writes no file and creates no        *)
(* directory, emits one status event and no error event, and phase 4       *)
(* still runs afterwards.                                                  *)
(***************************************************************************)
C10_SkipIsInformational ==
    /\ [][ (pc = "WritingMetadata" /\ mods_json_path = <<>>) =>
             /\ UNCHANGED fsVars
             /\ progress_queue' =
                   Append(progress_queue, Status("Skipping mods.json (path not found)."))
             /\ pc' = "WritingCheats"
         ]_vars
    /\ (pc = "WritingMetadata" /\ mods_json_path = <<>>) ~> CheatsStarted

\* phase 3 was skipped after a rename, no error was put, and phase 4 has run
C10_Witness ==
    /\ pc = "EmittingDone"
    /\ mods_json_path = <<>>
    /\ HasEvent("Skipping mods.json (path not found).")
    /\ CheatsStarted /\ ~HasType("error")
    /\ Len(final_mod_list) >= 1

\* the mods.json write of this run has failed
MetadataFailed == HasEvent("Could not write to mods.json file.")

\* the enabled.txt write of this run has failed
CheatsFailed == HasEvent("Could not write cheats to enabled.txt.")

(***************************************************************************)
(* C11: a failure of the mods.json write (phase 3) does not block phase 4: *)
(* the step that fails hands over to the enabled.txt step, which is then   *)
(* attempted in the same run; and no step of phase 3 or phase 4, failing   *)
(* or not, changes the name or the place of a mod directory, so every      *)
(* directory given its final name in phase 2 keeps it.                     *)
(***************************************************************************)
C11_MetadataFailureDoesNotBlock ==
    /\ [][ /\ (pc = "WritingMetadata" /\ MetadataFailed') => pc' = "WritingCheats"
           /\ pc \in {"WritingMetadata", "WritingCheats"} =>
                 \A id \in ModIds : dirs[id].parent # Gone => dirs'[id] = dirs[id]
         ]_vars
    /\ MetadataFailed ~> CheatsStarted

\* the mods.json write failed after a mod was numbered, and enabled.txt was then written
C11_Witness ==
    /\ pc = "EmittingDone"
    /\ MetadataFailed /\ ~CheatsFailed /\ CheatsStarted
    /\ \E k \in 1..Len(final_mod_list) :
          /\ final_mod_list[k].enabled
          /\ final_mod_list[k].name \in TopNames(dirs)

\* the enabled.txt step of this run has returned without a failure
CheatsSucceeded == pc \in {"EmittingDone", "Done"} /\ ~CheatsFailed

\* the folder the enabled.txt step writes into
CheatsFolder ==
    IF special_cheats_folder_name # <<>> THEN special_cheats_folder_name ELSE CheatsName

\* the file <root>/<CheatsFolder>/enabled.txt
EnabledFile == enabled_txt[IdOf(dirs, CheatsFolder)]

\* the cheat names some mod of pending_cheats maps to true
WantedCheats ==
    {c \in UNION {DOMAIN pending_cheats[m] : m \in DOMAIN pending_cheats} :
        \E m \in DOMAIN pending_cheats : c \in DOMAIN pending_cheats[m] /\ pending_cheats[m][c]}

(***************************************************************************)
(* C12: after phase 4 succeeds, enabled.txt in the folder named as the     *)
(* special cheats folder (the literal cheats when the last scan found      *)
(* none) exists and holds exactly one line per cheat name that some mod of *)
(* pendingCheats maps to true: each name once, in ascending order, each    *)
(* line the build-id prefix followed by <Name Cheat>; the file has zero    *)
(* length when there is no such name.                                      *)
(***************************************************************************)
C12_EnabledTxtContent ==
    CheatsSucceeded =>
        /\ CheatsFolder \in TopNames(dirs)
        /\ EnabledFile.exists
        /\ Len(EnabledFile.content) = Cardinality(WantedCheats)
        /\ \A c \in WantedCheats :
              \E i \in 1..Len(EnabledFile.content) : EnabledFile.content[i] = CheatLine(c)
        /\ \A i, j \in 1..Len(EnabledFile.content) :
              i < j => \E a, b \in WantedCheats :
                          /\ EnabledFile.content[i] = CheatLine(a)
                          /\ EnabledFile.content[j] = CheatLine(b)
                          /\ StrLess(a, b)

\* a finished run that wrote two lines for a selection naming one cheat twice and one cheat off
C12_Witness ==
    /\ pc = "Done" /\ CheatsSucceeded
    /\ Cardinality(DOMAIN pending_cheats) = 2
    /\ EnabledFile.content = <<CheatLine(<<"A">>), CheatLine(<<"X">>)>>

(***************************************************************************)
(* The enable-list on its own: the lines _apply_cheat_selections_threaded  *)
(* writes for a set of cheat names, and the set                            *)
(* _initialize_pending_cheats reads back from them.                        *)
(***************************************************************************)
\* the longest cheat name, and the largest set of cheat names
MaxNameLen == 2
MaxCheats == 2

\* the characters of the cheat names
CheatChars == {"A", "X", " ", "<"}

\* the sequences of at most n of the characters
RECURSIVE NamesOver(_, _)
NamesOver(chars, n) ==
    IF n = 0 THEN {<<>>}
    ELSE LET shorter == NamesOver(chars, n - 1)
         IN shorter \cup {Append(x, c) : x \in shorter, c \in chars}

CheatNames == NamesOver(CheatChars, MaxNameLen)

\* the sets of at most n names
RECURSIVE SetsUpTo(_, _)
SetsUpTo(names, n) ==
    IF n = 0 THEN {{}}
    ELSE LET smaller == SetsUpTo(names, n - 1)
         IN smaller \cup {S \cup {x} : S \in smaller, x \in names}

\* the text " Cheat>" that closes the name in a line
CheatSuffix == <<" ", "C", "h", "e", "a", "t", ">">>

\* line has CheatSuffix at position q
SuffixAt(line, q) ==
    q + Len(CheatSuffix) - 1 <= Len(line) /\ SubSeq(line, q, q + Len(CheatSuffix) - 1) = CheatSuffix

\* re.search(r"<(.*?) Cheat>", line) matches: some "<" has a " Cheat>" after it
CheatMatches(line) ==
    \E p \in 1..Len(line) : line[p] = "<" /\ \E q \in (p + 1)..Len(line) : SuffixAt(line, q)

\* match.group(1): from the leftmost "<" that can match, up to the nearest " Cheat>"
CheatGroup(line) ==
    LET starts == {p \in 1..Len(line) :
                      line[p] = "<" /\ \E q \in (p + 1)..Len(line) : SuffixAt(line, q)}
        p == CHOOSE x \in starts : \A y \in starts : x <= y
        ends == {q \in (p + 1)..Len(line) : SuffixAt(line, q)}
        q == CHOOSE x \in ends : \A y \in ends : x <= y
    IN SubSeq(line, p + 1, q - 1)

\* str.strip on a text whose only whitespace is the space
RECURSIVE Strip(_)
Strip(x) ==
    IF x = <<>> THEN x
    ELSE IF Head(x) = " " THEN Strip(Tail(x))
    ELSE IF x[Len(x)] = " " THEN Strip(SubSeq(x, 1, Len(x) - 1))
    ELSE x

\* globally_enabled_cheats: the names read from the lines of enabled.txt
LoadEnabledSet(lines) ==
    {Strip(CheatGroup(lines[i])) : i \in {k \in 1..Len(lines) : CheatMatches(lines[k])}}

\* the lines written for the cheat names of S, all enabled
LinesFor(S) ==
    LET sorted_cheats == SortedNames(S)
    IN [i \in 1..Len(sorted_cheats) |-> CheatLine(sorted_cheats[i])]

\* the root of the states in which a helper is called on its own
PlainRoot == <<<<"r">>, <<"m">>>>

InitCheatList ==
    /\ ObjectOver({}) /\ root = PlainRoot
    /\ \E S \in SetsUpTo(CheatNames, MaxCheats) :
          call = [fn |-> "cheat list", arg |-> S, stage |-> 0, file |-> <<>>, result |-> {}]

\* the writer puts the lines for the set into the file
WriteList ==
    /\ call.fn = "cheat list" /\ call.stage = 0
    /\ call' = [call EXCEPT !.file = LinesFor(call.arg), !.stage = 1]
    /\ UNCHANGED objVars

\* the loader reads the set back from the file
LoadList ==
    /\ call.fn = "cheat list" /\ call.stage = 1
    /\ call' = [call EXCEPT !.result = LoadEnabledSet(call.file), !.stage = 2]
    /\ UNCHANGED objVars

NextCheatList == WriteList \/ LoadList

SpecCheatList == InitCheatList /\ [][NextCheatList]_vars

(***************************************************************************)
(* C13: round trip of the enable-list: for every set S of cheat names,     *)
(* writing enabled.txt for S and re-parsing that file with the enabled-set *)
(* loader yields exactly S.                                                *)
(***************************************************************************)
C13_RoundTrip ==
    (call.fn = "cheat list" /\ call.stage = 2) => call.result = call.arg

\* C13 for the names that neither begin nor end with a space
C13_RoundTripTrimmed ==
    (call.fn = "cheat list" /\ call.stage = 2 /\ \A x \in call.arg : Strip(x) = x)
        => call.result = call.arg

(***************************************************************************)
(* The results of scan_and_analyze.                                        *)
(***************************************************************************)
\* a scan has run
Scanned == mods_path # <<>>

\* the scanned mods other than the special cheats folder
ScannedMods == {load_order[i] : i \in 1..Len(load_order)} \ {special_cheats_folder_name}

\* the file set of a scanned mod
FileSet(m) == IF m \in DOMAIN mod_files THEN mod_files[m] ELSE {}

\* every path of some file set
ScannedPaths == UNION {FileSet(m) : m \in ScannedMods}

\* the elements of a list
Elements(list) == {list[i] : i \in 1..Len(list)}

\* b is listed in conflicts[a][f]
ListedIn(a, f, b) ==
    a \in DOMAIN conflicts /\ f \in DOMAIN conflicts[a] /\ b \in Elements(conflicts[a][f])

(***************************************************************************)
(* C14: conflict symmetry-minus-self: after scan_and_analyze, for every    *)
(* path f and every two distinct scanned mods A and B, neither the special *)
(* cheats folder, whose file sets both contain f, B is listed in           *)
(* conflicts[A][f] if A is not cheat-only, and A is listed in              *)
(* conflicts[B][f] if B is not cheat-only.                                 *)
(***************************************************************************)
C14_ConflictSymmetry ==
    Scanned =>
        \A A \in ScannedMods, B \in ScannedMods :
        \A f \in FileSet(A) \cap FileSet(B) :
            A # B =>
               /\ A \notin cheat_only_mods => ListedIn(A, f, B)
               /\ B \notin cheat_only_mods => ListedIn(B, f, A)

\* ~B and the cheat-only C share exefs/a: C is listed for ~B, and C has no entry
C14_Witness ==
    /\ Scanned
    /\ <<"C">> \in cheat_only_mods
    /\ ListedIn(<<"~", "B">>, <<ExefsName, FileA>>, <<"C">>)
    /\ <<"C">> \notin DOMAIN conflicts

\* two mods that are not cheat-only list each other
C14_WitnessBoth ==
    /\ Scanned
    /\ \E A \in ScannedMods, B \in ScannedMods : \E f \in FileSet(A) \cap FileSet(B) :
          A # B /\ {A, B} \cap cheat_only_mods = {} /\ ListedIn(A, f, B) /\ ListedIn(B, f, A)

\* the scanned mods other than M whose file set contains f
OtherProviders(M, f) == {O \in ScannedMods \ {M} : f \in FileSet(O)}

(***************************************************************************)
(* C15: after every scan_and_analyze, for every key M of the conflict map  *)
(* and every path f: M is never an element of conflicts[M][f]; f is a key  *)
(* of conflicts[M] iff the file set of M contains f and the file set of at *)
(* least one other mod contains f; and conflicts[M][f] is then exactly the *)
(* non-empty list of the other mods providing f.                           *)
(***************************************************************************)
C15_ConflictEntries ==
    Scanned =>
        \A M \in DOMAIN conflicts :
        \A f \in ScannedPaths \cup DOMAIN conflicts[M] :
            /\ f \in DOMAIN conflicts[M] <=> (f \in FileSet(M) /\ OtherProviders(M, f) # {})
            /\ f \in DOMAIN conflicts[M] =>
                  /\ M \notin Elements(conflicts[M][f])
                  /\ conflicts[M][f] # <<>>
                  /\ Elements(conflicts[M][f]) = OtherProviders(M, f)
                  /\ Len(conflicts[M][f]) = Cardinality(OtherProviders(M, f))

\* a path of three providers: the entry of each lists the two others
C15_Witness ==
    /\ Scanned
    /\ \E M \in DOMAIN conflicts : \E f \in DOMAIN conflicts[M] :
          /\ Len(conflicts[M][f]) = 2
          /\ \E g \in FileSet(M) : g \notin DOMAIN conflicts[M]

(***************************************************************************)
(* The scan on its own, over mods whose top-level entries differ in case   *)
(* and in which of cheats and romfs they hold.                             *)
(***************************************************************************)
UpperCheats == <<"C", "h", "e", "a", "t", "s">>
UpperRomfs == <<"R", "o", "m", "f", "s">>

TopTemplates ==
    << [name |-> <<"A">>, top |-> {CheatsName}, files |-> {<<CheatsName, FileA>>}],
       [name |-> <<"B">>, top |-> {UpperCheats, ExefsName},
        files |-> {<<UpperCheats, FileA>>, <<ExefsName, FileA>>}],
       [name |-> <<"C">>, top |-> {CheatsName, RomfsName},
        files |-> {<<CheatsName, FileA>>, <<RomfsName, FileA>>}],
       [name |-> <<"D">>, top |-> {UpperCheats, UpperRomfs},
        files |-> {<<UpperCheats, FileA>>, <<UpperRomfs, FileA>>}],
       [name |-> <<"M">>, top |-> {CheatsName, UpperRomfs}, files |-> {<<UpperRomfs, FileA>>}],
       [name |-> <<"X">>, top |-> {RomfsName}, files |-> {<<RomfsName, FileA>>}],
       [name |-> <<"~", "A">>, top |-> {ExefsName}, files |-> {<<ExefsName, FileA>>}],
       [name |-> CheatsName, top |-> {CheatsName}, files |-> {<<CheatsName, FileA>>}] >>

InitScan ==
    /\ \E S \in {T \in SUBSET (1..Len(TopTemplates)) : Cardinality(T) <= MaxMods} :
          TreeOf(TopTemplates, S)
    /\ NoMetadata
    /\ Constructed
    /\ call = NoCall

SpecScan == InitScan /\ [][Scan]_vars

\* the top-level listing of a scanned mod
Listing(m) == TopLevel(dirs, tree, IdOf(dirs, m))

\* listing has an entry whose name is n in some case
HasEntry(listing, n) == \E e \in listing : Lower(e) = n

(***************************************************************************)
(* C16: cheat-only classification: after scan_and_analyze a mod other than *)
(* the special cheats folder is in the cheat-only set iff its top-level    *)
(* listing has an entry named `cheats` in some case and none named `romfs` *)
(* in some case; a mod with both cheats and romfs is not cheat-only.       *)
(***************************************************************************)
C16_CheatOnly ==
    Scanned =>
        /\ cheat_only_mods \subseteq ScannedMods
        /\ \A m \in ScannedMods :
              m \in cheat_only_mods <=>
                 (HasEntry(Listing(m), CheatsName) /\ ~HasEntry(Listing(m), RomfsName))

\* B holds Cheats and is cheat-only; D holds Cheats and Romfs and is not
C16_Witness ==
    /\ Scanned
    /\ ScannedMods = {<<"B">>, <<"D">>}
    /\ cheat_only_mods = {<<"B">>}

(***************************************************************************)
(* Scan and apply, twice, with one desired order and no failing operation. *)
(***************************************************************************)
\* the number of apply runs of the repeated scenario
Runs == 2

\* the caller holds one desired order for all its runs
InitTwice ==
    /\ \E S \in InitialTrees : ObjectOver(S)
    /\ \E order \in OrdersOver(TopNames(dirs) \cup {AbsentKey}) :
          call = [fn |-> "apply twice", order |-> order]

\* apply_new_order_threaded(order, {}, queue) with the order the caller holds
ApplyHeld ==
    /\ call.fn = "apply twice"
    /\ applies < Runs
    /\ \E listing \in Listings(TopNames(dirs)) : StartApply(call.order, <<>>, listing, TRUE)

\* the worker's steps when no filesystem operation fails
WorkerOk ==
    \/ BackupStep(TRUE) \/ BeginReorder(TRUE) \/ ReorderStep(TRUE)
    \/ WriteMetadata("ok") \/ WriteCheats("ok") \/ EmitDone

NextTwice == RunScan(root) \/ ApplyHeld \/ WorkerOk \/ AfterApply

SpecTwice == InitTwice /\ [][NextTwice]_vars

\* the second run has ended
SecondDone == call.fn = "apply twice" /\ applies = Runs /\ pc = "Done"

\* the entries of final_mod_list that are enabled
EnabledEntries == {k \in 1..Len(final_mod_list) : final_mod_list[k].enabled}

\* every run numbers its enabled entries 01, 02, ... in the order of the desired order
C17_CounterRestarts ==
    (call.fn = "apply twice" /\ pc \in {"WritingMetadata", "WritingCheats", "EmittingDone", "Done"}) =>
        /\ enabled_romfs_index = Cardinality(EnabledEntries)
        /\ \A k \in EnabledEntries :
              SubSeq(final_mod_list[k].name, 1, 3)
                 = Format02(Cardinality({j \in EnabledEntries : j <= k})) \o <<"_">>

\* the first run left a tree of final names only, no two of one clean name
C17_SameNames == (SecondDone /\ CleanNamesDistinct) => TopNames(dirs) = TopNames(dirs0)

(***************************************************************************)
(* C17: apply determinism: for a fixed desired order, scan and apply, then *)
(* scan and apply again with the same order on the resulting tree, gives   *)
(* the identical set of final directory names both times, and the enabled  *)
(* counter restarts at 1 on each apply.  (dirs0 of the second run is the   *)
(* tree the first run left.)                                               *)
(***************************************************************************)
C17_ApplyDeterminism == C17_SameNames /\ C17_CounterRestarts

\* C17 for the orders whose keys name the cheat-only mods the way the resulting tree does
C17_SameNamesStableKeys ==
    (SecondDone /\ CleanNamesDistinct
       /\ \A k \in 1..Len(call.order) :
             (\E m \in cheat_only_mods : strip_prefix(m) = strip_prefix(call.order[k].name))
                => call.order[k].name \in cheat_only_mods)
        => TopNames(dirs) = TopNames(dirs0)

(***************************************************************************)
(* strip_prefix on its own.                                                *)
(***************************************************************************)
\* the longest name drawn from StripChars
MaxStripLen == 4

StripChars == {"0", "1", "_", "~", ".", "!", "F"}

Foo == <<"F", "o", "o">>

\* the names of the documented cases
StripExamples ==
    { <<"0", "1", "_">> \o Foo, <<"~">> \o Foo, <<".">> \o Foo, <<"!", "_">> \o Foo, Foo,
      <<"~", "0", "1", "_">> \o Foo }

InitStrip ==
    /\ ObjectOver({}) /\ root = PlainRoot
    /\ \E name \in NamesOver(StripChars, MaxStripLen) \cup StripExamples :
          call = [fn |-> "strip_prefix", arg |-> name, stage |-> 0, result |-> <<>>]

\* strip_prefix(name)
StripCall ==
    /\ call.fn = "strip_prefix" /\ call.stage = 0
    /\ call' = [call EXCEPT !.result = strip_prefix(call.arg), !.stage = 1]
    /\ UNCHANGED objVars

SpecStrip == InitStrip /\ [][StripCall]_vars

\* the first k characters of name are one-or-more digits followed by "_"
IsDigitPrefix(name, k) ==
    k >= 2 /\ name[k] = "_" /\ \A i \in 1..(k - 1) : IsDigit(name[i])

\* the first k characters of name are one-or-more of [.!~], optionally followed by "_"
IsMarkerPrefix(name, k) ==
    \/ \A i \in 1..k : IsMarker(name[i])
    \/ k >= 2 /\ name[k] = "_" /\ \A i \in 1..(k - 1) : IsMarker(name[i])

\* the length of the longest prefix of name that matches, 0 when none does
LongestPrefix(name) ==
    LET ends == {k \in 1..Len(name) : IsDigitPrefix(name, k) \/ IsMarkerPrefix(name, k)}
    IN IF ends = {} THEN 0 ELSE CHOOSE k \in ends : \A j \in ends : j <= k

\* the documented results
StripExpected(name) ==
    IF name = <<"~", "0", "1", "_">> \o Foo THEN <<"0", "1", "_">> \o Foo ELSE Foo

(***************************************************************************)
(* C18: strip_prefix(name) removes exactly the longest match at position 0 *)
(* of one-or-more digits followed by `_`, or of one-or-more characters of  *)
(* [.!~] optionally followed by `_`, and returns name unchanged when       *)
(* neither matches; one application removes at most one prefix: `01_Foo`,  *)
(* `~Foo`, `.Foo`, `!_Foo` and `Foo` give `Foo`, `~01_Foo` gives `01_Foo`. *)
(***************************************************************************)
C18_StripPrefix ==
    (call.fn = "strip_prefix" /\ call.stage = 1) =>
        /\ call.result = Drop(call.arg, LongestPrefix(call.arg))
        /\ call.arg \in StripExamples => call.result = StripExpected(call.arg)

\* a prefix after the removed one stays
C18_Witness ==
    /\ call.fn = "strip_prefix" /\ call.stage = 1
    /\ call.arg = <<"~", "0", "1", "_">> \o Foo
    /\ call.result = <<"0", "1", "_">> \o Foo

\* a marker run and its "_" go together
C18_WitnessUnderscore ==
    /\ call.fn = "strip_prefix" /\ call.stage = 1
    /\ call.arg = <<"!", "_">> \o Foo
    /\ call.result = Foo

(***************************************************************************)
(* get_current_load_order on its own: the directory names under the root,  *)
(* in the order os.listdir yields them, then sorted.                       *)
(***************************************************************************)
\* the largest number of directories listed
MaxListed == 3

ListedNames ==
    { <<"1", "0", "_", "F", "o", "o">>, <<"2", "_", "B", "a", "r">>, <<"1", "_", "B", "a", "z">>,
      <<"0", "1", "_", "A">>, <<"1", "_", "A">>, <<"A">>, <<"~", "B">>,
      <<"A", "2">>, <<"A", "1", "0">> }

InitOrder ==
    /\ ObjectOver({}) /\ root = PlainRoot
    /\ \E S \in SetsUpTo(ListedNames, MaxListed) : \E listing \in Listings(S) :
          call = [fn |-> "get_current_load_order", arg |-> listing, stage |-> 0, result |-> <<>>]

\* get_current_load_order() when os.listdir(mods_path) yields call.arg
OrderCall ==
    /\ call.fn = "get_current_load_order" /\ call.stage = 0
    /\ call' = [call EXCEPT !.result = NaturalSort(call.arg), !.stage = 1]
    /\ UNCHANGED objVars

SpecOrder == InitOrder /\ [][OrderCall]_vars

OrderReturned == call.fn = "get_current_load_order" /\ call.stage = 1

\* the result holds each listed directory once, ascending by the natural comparator
C19_SortedOnce ==
    OrderReturned =>
        /\ Elements(call.result) = Elements(call.arg)
        /\ Len(call.result) = Len(call.arg)
        /\ \A i, j \in 1..Len(call.result) : i < j => ~KeyLess(call.result[j], call.result[i])
        /\ Elements(call.arg) = { <<"1", "0", "_", "F", "o", "o">>, <<"2", "_", "B", "a", "r">>,
                                  <<"1", "_", "B", "a", "z">> }
              => call.result = << <<"1", "_", "B", "a", "z">>, <<"2", "_", "B", "a", "r">>,
                                  <<"1", "0", "_", "F", "o", "o">> >>

\* every listing of the same directories gives the same result
C19_AnyListing ==
    OrderReturned => \A listing \in Listings(Elements(call.arg)) : NaturalSort(listing) = call.result

(***************************************************************************)
(* C19: get_current_load_order returns the immediate subdirectories of the *)
(* root, each exactly once, ascending by the natural comparator (digit     *)
(* runs as integers, the other runs by code point, so `1_Baz` < `2_Bar` <  *)
(* `10_Foo`), and the result does not depend on the order in which the     *)
(* filesystem lists the directories.                                       *)
(***************************************************************************)
C19_LoadOrder == C19_SortedOnce /\ C19_AnyListing

\* C19 without the independence, and with it for names of distinct sort keys
C19_LoadOrderDistinctKeys ==
    /\ C19_SortedOnce
    /\ (\A a, b \in Elements(call.arg) : a # b => SortKey(a) # SortKey(b)) => C19_AnyListing

(***************************************************************************)
(* set_mods_path on its own, before or after a scan.                       *)
(***************************************************************************)
\* os.path.isdir(path): the root is the one directory among the paths handed over
IsDir(path) == path = root

\* the paths handed to set_mods_path
PathPool == RootPool \cup {InvalidPath}

InitSetPath ==
    /\ \E S \in InitialTrees : ObjectOver(S)
    /\ call = [fn |-> "set_mods_path", arg |-> <<>>, stage |-> 0, result |-> FALSE]

\* SetModsPath, except that mods_json_path is reset before the path is tested
SetModsPath_ResetFirst(path) ==
    /\ call.fn = "set_mods_path" /\ call.stage = 0
    /\ pc = "Idle"
    /\ IF ~IsDir(path)
       THEN /\ call' = [call EXCEPT !.arg = path, !.stage = 1, !.result = FALSE]
            /\ mods_json_path' = <<>>
            /\ UNCHANGED mods_path
       ELSE /\ call' = [call EXCEPT !.arg = path, !.stage = 1, !.result = TRUE]
            /\ mods_path' = path
            /\ mods_json_path' = DeriveJsonPath(path)
    /\ UNCHANGED <<fsVars, load_order, mod_files, conflicts, cheat_only_mods,
                   special_cheats_folder_name, runVars, scanned, applies>>

\* set_mods_path(path): call.result is the value returned
SetModsPath(path) ==
    /\ call.fn = "set_mods_path" /\ call.stage = 0
    /\ pc = "Idle"
    /\ IF ~IsDir(path)
       THEN /\ call' = [call EXCEPT !.arg = path, !.stage = 1, !.result = FALSE]
            /\ UNCHANGED <<mods_path, mods_json_path>>
       ELSE /\ call' = [call EXCEPT !.arg = path, !.stage = 1, !.result = TRUE]
            /\ mods_path' = path
            /\ mods_json_path' = DeriveJsonPath(path)
    /\ UNCHANGED <<fsVars, load_order, mod_files, conflicts, cheat_only_mods,
                   special_cheats_folder_name, runVars, scanned, applies>>

SetPath == \E path \in PathPool : SetModsPath(path)

SpecSetPath == InitSetPath /\ [][RunScan(root) \/ SetPath]_vars

\* set_mods_path has returned from a path that is no directory
InvalidReturned == call.fn = "set_mods_path" /\ call.stage = 1 /\ ~IsDir(call.arg)

(***************************************************************************)
(* C20: set_mods_path(path) with a path that is not a directory returns    *)
(* False and has no partial effect: mods_path, mods_json_path and every    *)
(* scan result (load_order, mod_files, conflicts, cheat_only_mods,         *)
(* special_cheats_folder_name) keep the values they had before the call.   *)
(***************************************************************************)
C20_InvalidPathNoEffect ==
    [][ (call.fn = "set_mods_path" /\ call.stage = 0 /\ InvalidReturned')
           => (call'.result = FALSE /\ scanVars' = scanVars) ]_vars

\* the call comes after a scan of a host layout whose results it leaves in place
C20_Witness ==
    /\ InvalidReturned
    /\ call.result = FALSE
    /\ mods_path = root
    /\ mods_json_path # <<>>
    /\ Len(load_order) = MaxMods
    /\ conflicts # <<>>

(***************************************************************************)
(* DreamSortApp: the window that owns the analyzer.  It starts the apply   *)
(* worker on a thread (start_apply_worker), polls the queue every 100 ms   *)
(* (check_apply_progress) and rescans on the first done or error event it  *)
(* reads.  call holds the window's state: current_state, whether a poll is *)
(* scheduled, how many events it has read, the threads it has started, and *)
(* a bit that flips at every run_scan.                                     *)
(***************************************************************************)
\* apply_thread.is_alive(): the worker has started and has not returned
WorkerAlive == pc \notin {"Idle", "Done", "Failed"}

\* the window opens on a root of one mod directory at most
InitApp ==
    /\ \E S \in {T \in InitialTrees : Cardinality(T) <= 1} : ObjectOver(S)
    /\ call = [fn |-> "app", current_state |-> "idle", polling |-> FALSE, read |-> 0,
               started |-> 0, scan_bit |-> FALSE]

\* run_scan from the Scan/Refresh button or a folder selection, while the main frame shows
AppScan ==
    /\ call.fn = "app" /\ call.current_state = "idle"
    /\ \E listing \in Listings(TopNames(dirs)) : ScanEffect(listing)
    /\ call' = [call EXCEPT !.scan_bit = ~call.scan_bit]
    /\ UNCHANGED <<fsVars, runVars, applies>>

\* apply_changes and start_apply_worker: the first worker thread of the window
AppApply ==
    /\ call.fn = "app" /\ call.current_state = "idle" /\ call.started = 0
    /\ mods_path # <<>>
    /\ \E order \in Orders, pending \in PendingPool,
          listing \in Listings(TopNames(dirs)), listOk \in BOOLEAN :
            /\ pc = "Idle" /\ scanned
            /\ applies' = applies + 1
            /\ scanned' = FALSE
            /\ ordered_mods_config' = order
            /\ pending_cheats' = pending
            /\ temp_map' = <<>>
            /\ final_mod_list' = <<>>
            /\ enabled_romfs_index' = 0
            /\ ops_done' = 0
            /\ idx' = 1
            /\ dirs0' = dirs
            /\ IF ~listOk
               THEN /\ progress_queue' = Put(<<>>, Error("Failed to list mod directories", <<>>))
                    /\ current_mods' = <<>>
                    /\ pc' = "Failed"
               ELSE /\ progress_queue' = Put(<<>>, Status("Phase 1: Backing up current mods..."))
                    /\ current_mods' = listing
                    /\ pc' = "BackingUp"
    /\ call' = [call EXCEPT !.current_state = "working", !.polling = TRUE, !.read = 0, !.started = 1]
    /\ UNCHANGED <<fsVars, scanVars>>

\* apply_changes and start_apply_worker once more: the thread is started, its steps are not followed
AppApplyAgain ==
    /\ call.fn = "app" /\ call.current_state = "idle" /\ call.started = 1
    /\ mods_path # <<>>
    /\ call' = [call EXCEPT !.current_state = "working", !.started = 2]
    /\ UNCHANGED objVars

\* the position of the first done or error event after the events already read, 0 when none
FirstTerminal(queue, read) ==
    LET ends == {k \in (read + 1)..Len(queue) : queue[k].type \in {"error", "done"}}
    IN IF ends = {} THEN 0 ELSE CHOOSE k \in ends : \A j \in ends : k <= j

\* check_apply_progress: drain the queue; on done or error go idle and run_scan,
\* else poll again while the thread is alive
CheckApplyProgress ==
    /\ call.fn = "app" /\ call.polling /\ call.started = 1
    /\ LET k == FirstTerminal(progress_queue, call.read)
       IN IF k > 0
          THEN /\ call' = [call EXCEPT !.current_state = "idle", !.polling = FALSE, !.read = k,
                                       !.scan_bit = ~call.scan_bit]
               /\ \E listing \in Listings(TopNames(dirs)) : ScanEffect(listing)
          ELSE /\ call' = [call EXCEPT !.read = Len(progress_queue), !.polling = WorkerAlive]
               /\ UNCHANGED <<scanVars, scanned>>
    /\ UNCHANGED <<fsVars, runVars, applies>>

NextApp ==
    \/ AppScan \/ AppApply \/ AppApplyAgain \/ CheckApplyProgress
    \/ Backup \/ RestoreSpecial \/ Reorder \/ Metadata \/ Cheats \/ EmitDone

SpecApp == InitApp /\ [][NextApp]_vars

(***************************************************************************)
(* C21: the caller serializes scan and apply: run_scan never executes      *)
(* while an apply worker thread is still running, and a second apply       *)
(* worker is never started while a previous one is still running.          *)
(***************************************************************************)
C21_Serialized ==
    [][ /\ (call.fn = "app" /\ call'.scan_bit # call.scan_bit) => ~WorkerAlive
        /\ (call.fn = "app" /\ call'.started = 2 /\ call.started = 1) => ~WorkerAlive
      ]_vars

\* C21 for the runs in which neither the mods.json step nor the enabled.txt step fails
C21_SerializedNoWriteFailure ==
    [][ (~MetadataFailed /\ ~CheatsFailed) =>
           /\ (call.fn = "app" /\ call'.scan_bit # call.scan_bit) => ~WorkerAlive
           /\ (call.fn = "app" /\ call'.started = 2 /\ call.started = 1) => ~WorkerAlive
      ]_vars

(***************************************************************************)
(* The program beside a mods.json left by an earlier session.              *)
(***************************************************************************)
StaleEntry == [name |-> <<"0", "9", "_", "D">>, path |-> <<<<"r">>, <<"0", "9", "_", "D">>>>, enabled |-> TRUE]

InitStale ==
    /\ \E S \in InitialTrees : TreeOf(Templates, S)
    /\ json_dir = TRUE /\ mods_json = File(<<StaleEntry>>)
    /\ Constructed
    /\ call = NoCall

SpecStale == InitStale /\ [][Next]_vars

\* phase 3 of this run has executed and its write has succeeded
MetadataSucceeded ==
    /\ pc \in {"WritingCheats", "EmittingDone", "Done"}
    /\ HasEvent("Phase 3: Updating Ryujinx mods.json...")
    /\ ~MetadataFailed

\* entry i of the desired order was renamed in phase 2: it is not the special cheats folder,
\* and phase 1 backed up a directory of its clean name that the restore did not take back
Renamed(i) ==
    LET clean_name == strip_prefix(ordered_mods_config[i].name)
    IN /\ ~IsSpecial(i)
       /\ \E d \in TopIds(dirs0) : strip_prefix(dirs0[d].name) = clean_name
       /\ special_cheats_folder_name # <<>> => clean_name # strip_prefix(special_cheats_folder_name)

\* the mods.json entries for the desired-order entries from i on
RECURSIVE ExpectedEntries(_)
ExpectedEntries(i) ==
    IF i > Len(ordered_mods_config) THEN <<>>
    ELSE (IF Renamed(i)
          THEN <<[name |-> FinalName(i), path |-> Append(root, FinalName(i)), enabled |-> Numbered(i)]>>
          ELSE <<>>) \o ExpectedEntries(i + 1)

(***************************************************************************)
(* C22: when phase 3 executes and succeeds, mods.json is fully replaced by *)
(* {"mods": [...]}: one entry per mod renamed in phase 2 of this run, in   *)
(* desired-order sequence, with name = the final directory name, path =    *)
(* the absolute path of that directory under the root, enabled = true      *)
(* exactly for the numbered mods; the special cheats folder and the        *)
(* entries absent from disk are not listed, and no earlier entry survives. *)
(***************************************************************************)
C22_ModsJsonContent ==
    MetadataSucceeded =>
        /\ mods_json = File(ExpectedEntries(1))
        /\ \A k \in 1..Len(mods_json.content) : mods_json.content[k].name \in TopNames(dirs)

\* two mods listed, the first disabled and the second numbered 01, beside a skipped entry
C22_Witness ==
    /\ MetadataSucceeded /\ pc = "Done"
    /\ Len(ordered_mods_config) = 2
    /\ Len(mods_json.content) = 2
    /\ ~mods_json.content[1].enabled /\ mods_json.content[2].enabled
    /\ mods_json.content[2].path = Append(root, mods_json.content[2].name)

\* an absent entry and the special cheats folder are left out
C22_WitnessSkipped ==
    /\ MetadataSucceeded
    /\ Len(ordered_mods_config) = 2
    /\ \E i \in Entries : IsSpecial(i)
    /\ \E i \in Entries : ~OnDisk(i)
    /\ mods_json.content = <<>>

(***************************************************************************)
(* get_current_load_order over what the root path may be on disk when it   *)
(* is listed: a directory, nothing (missing), or a regular file.           *)
(***************************************************************************)
RootKinds == {"directory", "missing", "file"}

\* no exception leaves the call
NoError == "none"

\* get_current_load_order without the except clause: a missing root raises
get_current_load_order_NoExcept(path, kind, listing) ==
    IF path = <<>> THEN [result |-> <<>>, raised |-> NoError]
    ELSE IF kind = "missing" THEN [result |-> <<>>, raised |-> "FileNotFoundError"]
    ELSE IF kind = "file" THEN [result |-> <<>>, raised |-> "NotADirectoryError"]
    ELSE [result |-> NaturalSort(listing), raised |-> NoError]

\* get_current_load_order: path is mods_path (<<>> for unset); os.listdir raises
\* FileNotFoundError on a missing path, which is caught, and NotADirectoryError on a file
get_current_load_order(path, kind, listing) ==
    IF path = <<>> THEN [result |-> <<>>, raised |-> NoError]
    ELSE IF kind = "missing" THEN [result |-> <<>>, raised |-> NoError]
    ELSE IF kind = "file" THEN [result |-> <<>>, raised |-> "NotADirectoryError"]
    ELSE [result |-> NaturalSort(listing), raised |-> NoError]

InitListing ==
    /\ ObjectOver({}) /\ root = PlainRoot
    /\ \E path \in {<<>>, PlainRoot}, kind \in RootKinds :
       \E S \in IF kind = "directory" THEN SetsUpTo(ListedNames, 2) ELSE {{}} :
       \E listing \in Listings(S) :
          call = [fn |-> "list", mods_path |-> path, kind |-> kind, arg |-> listing, stage |-> 0,
                  result |-> <<>>, raised |-> NoError]

ListingCall ==
    /\ call.fn = "list" /\ call.stage = 0
    /\ LET out == get_current_load_order(call.mods_path, call.kind, call.arg)
       IN call' = [call EXCEPT !.result = out.result, !.raised = out.raised, !.stage = 1]
    /\ UNCHANGED objVars

SpecListing == InitListing /\ [][ListingCall]_vars

ListingReturned == call.fn = "list" /\ call.stage = 1

(***************************************************************************)
(* C23: listing the load order fails with a NotFound error when the root   *)
(* is not a directory (missing, or a regular file), and returns the empty  *)
(* sequence only when the root is a directory with no subdirectories.      *)
(***************************************************************************)
C23_ListingErrors ==
    (ListingReturned /\ call.mods_path # <<>>) =>
        /\ call.kind # "directory" => call.raised = "FileNotFoundError"
        /\ (call.raised = NoError /\ call.result = <<>>) => (call.kind = "directory" /\ call.arg = <<>>)

(***************************************************************************)
(* C23, amended: listing the load order returns the empty sequence when    *)
(* the root is unset, is missing, or is a directory with no                *)
(* subdirectories; it raises NotADirectoryError when the root is a regular *)
(* file; it raises no NotFound error.                                      *)
(***************************************************************************)
C23_ListingOutcomes ==
    ListingReturned =>
        /\ call.raised # "FileNotFoundError"
        /\ (call.mods_path # <<>> /\ call.kind = "file") <=> call.raised = "NotADirectoryError"
        /\ (call.raised = NoError /\ call.result = <<>>)
              <=> \/ call.mods_path = <<>>
                  \/ call.kind = "missing"
                  \/ call.kind = "directory" /\ call.arg = <<>>
        /\ (call.mods_path # <<>> /\ call.kind = "directory") => call.result = NaturalSort(call.arg)

\* a root that went missing after it was set lists as empty
C23_Witness ==
    /\ ListingReturned
    /\ call.mods_path # <<>> /\ call.kind = "missing"
    /\ call.result = <<>> /\ call.raised = NoError

(***************************************************************************)
(* The scan over a root some of whose mod directories cannot be listed.    *)
(* call.unreadable holds the names whose listing raised at the last scan.  *)
(***************************************************************************)
InitUnreadable ==
    /\ \E S \in InitialTrees \cup CollidingTrees : ObjectOver(S)
    /\ call = [fn |-> "scan", unreadable |-> {}]

ScanUnreadable ==
    /\ call.fn = "scan"
    /\ pc = "Idle"
    /\ \E unreadable \in SUBSET TopNames(dirs) :
          /\ call' = [call EXCEPT !.unreadable = unreadable]
          /\ \E listing \in Listings(TopNames(dirs)) : ScanEffectWith(listing, unreadable)
    /\ UNCHANGED <<fsVars, runVars, applies>>

SpecUnreadable == InitUnreadable /\ [][ScanUnreadable]_vars

\* m is listed by some conflict entry
Contributes(m) ==
    \E a \in DOMAIN conflicts : \E f \in DOMAIN conflicts[a] : m \in Elements(conflicts[a][f])

(***************************************************************************)
(* C24: a mod directory that is unreadable during scan_and_analyze does    *)
(* not abort the scan: it still appears in the load order with an empty    *)
(* file set, it contributes to no conflict entry, and every other listed   *)
(* mod is still fully enumerated and classified.                           *)
(***************************************************************************)
C24_UnreadableMod ==
    (call.fn = "scan" /\ Scanned) =>
        /\ Elements(load_order) = TopNames(dirs)
        /\ \A m \in call.unreadable \ {special_cheats_folder_name} :
              /\ m \in DOMAIN mod_files /\ mod_files[m] = {}
              /\ m \notin DOMAIN conflicts
              /\ ~Contributes(m)
        /\ \A m \in ScannedMods \ call.unreadable :
              /\ m \in DOMAIN mod_files /\ mod_files[m] = WalkFiles(dirs, tree, IdOf(dirs, m))
              /\ m \in cheat_only_mods <=> IsCheatOnly(Listing(m))

\* 01_A is unreadable; A and ~B after it in the load order still conflict on romfs/a
C24_Witness ==
    /\ call.fn = "scan" /\ Scanned
    /\ call.unreadable = {<<"0", "1", "_", "A">>}
    /\ ListedIn(<<"A">>, <<RomfsName, FileA>>, <<"~", "B">>)
    /\ conflicts[<<"A">>][<<RomfsName, FileA>>] = << <<"~", "B">> >>

(***************************************************************************)
(* One apply whose desired order names the mods either by their raw names  *)
(* or by their clean names; no operation fails.  call.order is the order   *)
(* by raw names, call.keying says which keys the worker is handed.         *)
(***************************************************************************)
KeyedTemplates ==
    << [name |-> <<"~", "C">>, top |-> {CheatsName}, files |-> {<<CheatsName, FileA>>}],
       [name |-> <<"0", "1", "_", "B">>, top |-> {RomfsName}, files |-> {<<RomfsName, FileA>>}],
       [name |-> <<"~">> \o CheatsName, top |-> {}, files |-> {}],
       [name |-> <<"A">>, top |-> {RomfsName}, files |-> {<<RomfsName, FileA>>}] >>

InitKeyed ==
    /\ \E S \in {T \in SUBSET (1..Len(KeyedTemplates)) : Cardinality(T) <= MaxMods} :
          TreeOf(KeyedTemplates, S)
    /\ NoMetadata
    /\ Constructed
    /\ \E order \in OrdersOver(TopNames(dirs) \cup {AbsentKey}), keying \in {"raw", "clean"} :
          call = [fn |-> "keyed", order |-> order, keying |-> keying]

\* the order handed to the worker
KeyedOrder ==
    IF call.keying = "raw" THEN call.order
    ELSE [i \in 1..Len(call.order) |->
            [name |-> strip_prefix(call.order[i].name), enabled |-> call.order[i].enabled]]

ApplyKeyed ==
    /\ call.fn = "keyed"
    /\ applies = 0
    /\ \E listing \in Listings(TopNames(dirs)) : StartApply(KeyedOrder, <<>>, listing, TRUE)

NextKeyed == RunScan(root) \/ ApplyKeyed \/ WorkerOk

SpecKeyed == InitKeyed /\ [][NextKeyed]_vars

KeyedDone == call.fn = "keyed" /\ pc = "Done"

\* the raw name of entry i
RawKey(i) == call.order[i].name

\* entry i names a mod of the root that is not the special cheats folder
RawListed(i) == RawKey(i) \in TopNames(dirs0) /\ RawKey(i) # special_cheats_folder_name

\* entry i is to be numbered: listed, not cheat-only, enabled
RawNumbered(i) == RawListed(i) /\ RawKey(i) \notin cheat_only_mods /\ call.order[i].enabled

\* the final name of entry i
RawFinal(i) ==
    IF RawNumbered(i)
    THEN Format02(Cardinality({j \in 1..i : RawNumbered(j)})) \o <<"_">> \o strip_prefix(RawKey(i))
    ELSE <<"~">> \o strip_prefix(RawKey(i))

\* the Final Mod Records for the entries from i on
RECURSIVE RawRecords(_)
RawRecords(i) ==
    IF i > Len(call.order) THEN <<>>
    ELSE (IF RawListed(i) THEN <<[name |-> RawFinal(i), enabled |-> RawNumbered(i)]>> ELSE <<>>)
         \o RawRecords(i + 1)

\* the final names and records are those the order gives by raw names
KeyedOutcome ==
    /\ \A i \in 1..Len(call.order) :
          RawListed(i) => Named(IdOf(dirs0, RawKey(i)), RawFinal(i))
    /\ special_cheats_folder_name # <<>> =>
          Named(IdOf(dirs0, special_cheats_folder_name), special_cheats_folder_name)
    /\ final_mod_list = RawRecords(1)

\* the run keyed by raw names has the outcome that the run keyed by clean names is compared with
C25_RawKeyedOutcome == (KeyedDone /\ call.keying = "raw") => KeyedOutcome

(***************************************************************************)
(* C25: the result of apply does not depend on whether the desired order   *)
(* keys a mod by its raw on-disk name or by its clean name: both runs give *)
(* the same final directory names and the same Final Mod Records; a        *)
(* cheat-only mod keyed by its clean name is still named ~<cleanName> and  *)
(* the special cheats folder keyed by its clean name is still left         *)
(* unnumbered.                                                             *)
(***************************************************************************)
C25_KeyingIndependent == KeyedDone => KeyedOutcome

\* C25 for the orders that name no cheat-only mod whose raw name carries a prefix
C25_KeyingIndependentPlainCheatOnly ==
    (KeyedDone /\ \A i \in 1..Len(call.order) :
                     RawKey(i) \in cheat_only_mods => strip_prefix(RawKey(i)) = RawKey(i))
        => KeyedOutcome

(***************************************************************************)
(* set_mods_path called again and again with directories of several        *)
(* shapes.                                                                 *)
(***************************************************************************)
DirPool ==
    { <<RootSegment, ModsName, ContentsName, <<"0", "1">>>>,
      <<RootSegment, <<"r">>, <<"M", "o", "d", "s">>, <<"C", "o", "n", "t", "e", "n", "t", "s">>, <<"0", "1">>>>,
      <<RootSegment, <<"r">>, <<"x">>, ModsName, ContentsName, <<"A">>>>,
      <<RootSegment, <<"r">>, ModsName, ContentsName>>,
      <<RootSegment, <<"r">>, ModsName, <<"x">>, <<"0", "1">>>>,
      <<RootSegment, <<"r">>, <<"m">>>>,
      <<RootSegment, ContentsName, <<"0", "1">>>>,
      <<ModsName, ContentsName, <<"0", "1">>>> }

InitDerive ==
    /\ \E S \in InitialTrees : ObjectOver(S)
    /\ call = [fn |-> "set_mods_path again", arg |-> <<>>]

\* set_mods_path(path) on a directory: lines 95-124
SetModsPathDir(path) ==
    /\ call.fn = "set_mods_path again"
    /\ pc = "Idle"
    /\ call' = [call EXCEPT !.arg = path]
    /\ mods_path' = path
    /\ mods_json_path' = DeriveJsonPath(path)
    /\ UNCHANGED <<fsVars, load_order, mod_files, conflicts, cheat_only_mods,
                   special_cheats_folder_name, runVars, scanned, applies>>

SetPathDir == \E path \in DirPool : SetModsPathDir(path)

SpecDerive == InitDerive /\ [][SetPathDir]_vars

\* the last three segments of the path are mods, contents (in any case) and an id
Recognized(path) ==
    /\ Len(path) >= 3
    /\ Lower(path[Len(path) - 2]) = ModsName
    /\ Lower(path[Len(path) - 1]) = ContentsName

(***************************************************************************)
(* C26: after a successful set_mods_path(path), mods_json_path is set iff  *)
(* the normalized path has at least three segments whose last three are    *)
(* mods, contents, <id> (the first two in any case), and it then equals    *)
(* <prefix>/games/<id>/mods.json, <prefix> the path above mods; otherwise  *)
(* it is unset, also when an earlier call had set it.                      *)
(***************************************************************************)
C26_JsonPath ==
    (call.fn = "set_mods_path again" /\ mods_path # <<>>) =>
        /\ mods_json_path # <<>> <=> Recognized(mods_path)
        /\ Recognized(mods_path) =>
              mods_json_path = SubSeq(mods_path, 1, Len(mods_path) - 3)
                                  \o <<GamesName, mods_path[Len(mods_path)], ModsJsonName>>

\* C26 for the paths in which mods is not directly under the filesystem root
C26_JsonPathBelowRoot ==
    (call.fn = "set_mods_path again" /\ mods_path # <<>>
       /\ SubSeq(mods_path, 1, Len(mods_path) - 3) # <<RootSegment>>) =>
        /\ mods_json_path # <<>> <=> Recognized(mods_path)
        /\ Recognized(mods_path) =>
              mods_json_path = SubSeq(mods_path, 1, Len(mods_path) - 3)
                                  \o <<GamesName, mods_path[Len(mods_path)], ModsJsonName>>

(***************************************************************************)
(* C27: asymmetric conflict policy: after every scan_and_analyze, no       *)
(* cheat-only mod and not the special cheats folder is a key of the        *)
(* conflict map; the special cheats folder appears in no contributor list  *)
(* and has no file set; a cheat-only mod does appear in the contributor    *)
(* list of every mod, not cheat-only, that shares a file path with it.     *)
(***************************************************************************)
C27_AsymmetricPolicy ==
    Scanned =>
        /\ DOMAIN conflicts \cap (cheat_only_mods \cup {special_cheats_folder_name}) = {}
        /\ special_cheats_folder_name # <<>> =>
              /\ ~Contributes(special_cheats_folder_name)
              /\ special_cheats_folder_name \notin DOMAIN mod_files
        /\ \A c \in cheat_only_mods : \A m \in ScannedMods \ cheat_only_mods :
           \A f \in FileSet(c) \cap FileSet(m) : ListedIn(m, f, c)

\* a rescan finds the special cheats folder, and a cheat-only mod that contributes
\* to the entry of the mod it shares exefs/a with, without an entry of its own
C27_Witness ==
    /\ Scanned
    /\ special_cheats_folder_name = CheatsName
    /\ \E c \in cheat_only_mods : \E m \in DOMAIN conflicts :
          /\ ListedIn(m, <<ExefsName, FileA>>, c)
          /\ <<ExefsName, FileA>> \in FileSet(c)

(***************************************************************************)
(* Scans, applies and changes made to the directory tree from outside the  *)
(* program: a mod directory is deleted while no worker runs.               *)
(***************************************************************************)
\* directory id and everything moved inside it
RECURSIVE Within(_, _)
Within(d, id) == {id} \cup UNION {Within(d, c) : c \in Children(d, id)}

\* a top-level directory is deleted by another program; call keeps the results
\* the analyzer held at that moment
RemoveDir ==
    /\ pc = "Idle"
    /\ \E id \in TopIds(dirs) :
          /\ dirs' = [k \in ModIds |->
                        IF k \in Within(dirs, id) THEN [parent |-> Gone, name |-> <<>>] ELSE dirs[k]]
          /\ tree' = [k \in ModIds |->
                        IF k \in Within(dirs, id) THEN [top |-> {}, files |-> {}] ELSE tree[k]]
          /\ enabled_txt' = [k \in ModIds |->
                        IF k \in Within(dirs, id) THEN NoFile ELSE enabled_txt[k]]
    /\ call' = [fn |-> "disk change", held |-> scanVars]
    /\ UNCHANGED <<json_dir, mods_json, root, scanVars, runVars, scanned, applies>>

NextRescan == Next \/ RemoveDir

SpecRescan == Init /\ [][NextRescan]_vars

\* no scan has replaced the results held when the tree was last changed from outside
NotRescanned == call.fn = "disk change" /\ call.held = scanVars

\* the results held are the ones the directory tree gives, and nothing else
ResultsOfTree ==
    /\ {load_order[i] : i \in 1..Len(load_order)} = TopNames(dirs)
    /\ Len(load_order) = Cardinality(TopNames(dirs))
    /\ \A i, j \in 1..Len(load_order) : i < j => ~KeyLess(load_order[j], load_order[i])
    /\ special_cheats_folder_name
          \in {n \in TopNames(dirs) : Lower(strip_prefix(n)) = CheatsName} \cup {<<>>}
    /\ (special_cheats_folder_name = <<>>)
          = (\A n \in TopNames(dirs) : Lower(strip_prefix(n)) # CheatsName)
    /\ DOMAIN mod_files = TopNames(dirs) \ {special_cheats_folder_name}
    /\ \A m \in DOMAIN mod_files : mod_files[m] = WalkFiles(dirs, tree, IdOf(dirs, m))
    /\ cheat_only_mods = {m \in DOMAIN mod_files : IsCheatOnly(TopLevel(dirs, tree, IdOf(dirs, m)))}
    /\ DOMAIN conflicts \subseteq DOMAIN mod_files
    /\ \A m \in DOMAIN conflicts : \A f \in DOMAIN conflicts[m] :
          /\ f \in mod_files[m]
          /\ \A o \in Elements(conflicts[m][f]) : o \in DOMAIN mod_files /\ f \in mod_files[o]
    /\ \A m \in DOMAIN mod_files \ cheat_only_mods : \A f \in mod_files[m] :
          (\E o \in DOMAIN mod_files \ {m} : f \in mod_files[o])
             => /\ m \in DOMAIN conflicts
                /\ f \in DOMAIN conflicts[m]
                /\ Elements(conflicts[m][f]) = {o \in DOMAIN mod_files \ {m} : f \in mod_files[o]}

(***************************************************************************)
(* C28: scan results are recomputed wholesale: after any sequence of       *)
(* scans, applies and on-disk changes, the load order, file sets, conflict *)
(* map, cheat-only set and special cheats folder name held after the       *)
(* latest scan_and_analyze are a function of the directory tree at the     *)
(* time of that scan only; no mod name, file path or conflict entry from   *)
(* an earlier scan survives if it is no longer on disk.                    *)
(***************************************************************************)
C28_RecomputedWholesale ==
    (pc = "Idle" /\ scanned /\ ~NotRescanned) => ResultsOfTree

\* a cheat-only mod was scanned as C, renamed by an apply, the other directories were
\* deleted, and the rescan holds the one name left and no conflict entry
C28_Witness ==
    /\ pc = "Idle" /\ scanned /\ ResultsOfTree
    /\ call.fn = "disk change" /\ call.held # scanVars
    /\ applies = MaxApplies
    /\ TopNames(dirs) = {<<"~", "C">>}
    /\ cheat_only_mods = {<<"~", "C">>}
    /\ DOMAIN conflicts = {}

\* the worker thread has returned
WorkerEnded == pc \in {"Done", "Failed"}

\* a done or an error event is on the queue
TerminalPut == HasType("done") \/ HasType("error")

(***************************************************************************)
(* C29: every started apply worker terminates, and before it terminates it *)
(* has put a terminal event (done or error) on the queue: in no run,       *)
(* whatever renames or writes fail, does the worker thread end, or stay    *)
(* for ever short of its end, without having put done or error.            *)
(***************************************************************************)
C29_WorkerTerminates ==
    /\ [](WorkerEnded => TerminalPut)
    /\ WorkerAlive ~> (WorkerEnded /\ TerminalPut)

\* a rename of phase 2 failed after a directory was given its temporary name: the
\* worker has returned with the error event as the last one on the queue
C29_Witness ==
    /\ pc = "Failed"
    /\ HasEvent("Phase 2")
    /\ LastEvent.type = "error"
    /\ \E n \in TopNames(dirs) : Len(n) > Len(TempSuffix)
                                    /\ SubSeq(n, Len(n) - Len(TempSuffix) + 1, Len(n)) = TempSuffix

\* a step of the worker thread: its start, or a step it takes before it returns
WorkerRuns == (pc = "Idle" /\ pc' # "Idle") \/ WorkerAlive

(***************************************************************************)
(* C30: while it runs, the apply worker writes no shared analyzer state:   *)
(* load_order, mod_files, conflicts, cheat_only_mods,                      *)
(* special_cheats_folder_name, mods_path and mods_json_path, and the       *)
(* desiredOrder and pendingCheats mappings it was given, have the same     *)
(* values when the worker ends as when it started; its only outputs are    *)
(* filesystem changes and queue events.                                    *)
(***************************************************************************)
C30_WorkerFrame ==
    [][ /\ WorkerRuns => scanVars' = scanVars
        /\ WorkerAlive => /\ ordered_mods_config' = ordered_mods_config
                          /\ pending_cheats' = pending_cheats
      ]_vars

\* the worker has renamed a directory, written enabled.txt and put done, and the
\* analyzer still holds the names of the scan before it
C30_Witness ==
    /\ pc = "Done"
    /\ Len(final_mod_list) >= 1
    /\ \E k \in 1..Len(load_order) : load_order[k] \notin TopNames(dirs)
    /\ \E id \in ModIds : enabled_txt[id].exists /\ enabled_txt[id].content # <<>>
    /\ pending_cheats # <<>>
    /\ ordered_mods_config # <<>>

(***************************************************************************)
(* The Cheat Catalog: _initialize_pending_cheats over one mod directory.   *)
(* A cheat file is its name and the blocks "[header] code" of its text.    *)
(***************************************************************************)
\* str.endswith
EndsWith(s, suffix) ==
    Len(s) >= Len(suffix) /\ SubSeq(s, Len(s) - Len(suffix) + 1, Len(s)) = suffix

\* ".txt" and "enabled.txt"
DotTxt == <<".", "t", "x", "t">>
EnabledTxtName == <<"e", "n", "a", "b", "l", "e", "d">> \o DotTxt

\* one block of a cheat file
Block(header, code) == [header |-> header, code |-> code]

\* the files a cheat directory may hold: c.txt, enabled.txt, Enabled.txt and c.bin
CatalogFiles ==
    { [name |-> <<"c">> \o DotTxt,
       blocks |-> {Block(<<"A">>, <<"1">>), Block(<<"X">>, <<"1">>), Block(<<"B">>, <<" ">>)}],
      [name |-> EnabledTxtName, blocks |-> {Block(<<"Z">>, <<"1">>)}],
      [name |-> <<"E", "n", "a", "b", "l", "e", "d">> \o DotTxt, blocks |-> {Block(<<"Y">>, <<"1">>)}],
      [name |-> <<"c", ".", "b", "i", "n">>, blocks |-> {Block(<<"W">>, <<"1">>)}] }

\* the top-level listings of the mod directory
CatalogListings == {{CheatsName}, {UpperCheats}, {UpperCheats, RomfsName}, {ExefsName}}

\* lines 1075-1078: the files of the cheat directory that are read
CheatFilesRead(files) ==
    {f \in files : EndsWith(f.name, DotTxt) /\ Lower(f.name) # EnabledTxtName}

\* lines 1086-1092: the names of the blocks that have a name and code
FoundCheats(f) == {b.header : b \in {x \in f.blocks : x.header # <<>> /\ Strip(x.code) # <<>>}}

\* os.path.isdir(os.path.join(mod_path, "cheats")): the filesystem resolves the literal
\* name, by the exact name or, where it ignores letter case, by any spelling of it
HasCheatsDir(listing, case_sensitive) ==
    IF case_sensitive THEN CheatsName \in listing
    ELSE \E e \in listing : Lower(e) = CheatsName

\* lines 1068-1096: pending_cheat_selections[mod_name] of a cheat-only mod
SeedPending(listing, files, enabled, case_sensitive) ==
    IF ~HasCheatsDir(listing, case_sensitive) THEN <<>>
    ELSE [c \in UNION {FoundCheats(f) : f \in CheatFilesRead(files)} |-> c \in enabled]

InitCatalog ==
    /\ ObjectOver({}) /\ root = PlainRoot
    /\ \E listing \in CatalogListings, files \in SUBSET CatalogFiles,
          enabled \in SUBSET {<<"A">>, <<"X">>}, case_sensitive \in BOOLEAN :
          call = [fn |-> "catalog", listing |-> listing, files |-> files, enabled |-> enabled,
                  case_sensitive |-> case_sensitive, stage |-> 0,
                  cheat_only |-> FALSE, listed |-> FALSE, pending |-> <<>>]

\* scan_and_analyze classifies the mod
CatalogScan ==
    /\ call.fn = "catalog" /\ call.stage = 0
    /\ call' = [call EXCEPT !.cheat_only = IsCheatOnly(call.listing), !.stage = 1]
    /\ UNCHANGED objVars

\* _initialize_pending_cheats seeds the mapping of the mod if it is cheat-only
CatalogSeed ==
    /\ call.fn = "catalog" /\ call.stage = 1
    /\ call' = [call EXCEPT
                  !.listed = call.cheat_only,
                  !.pending = IF call.cheat_only
                              THEN SeedPending(call.listing, call.files, call.enabled,
                                               call.case_sensitive)
                              ELSE <<>>,
                  !.stage = 2]
    /\ UNCHANGED objVars

NextCatalog == CatalogScan \/ CatalogSeed

SpecCatalog == InitCatalog /\ [][NextCatalog]_vars

\* the cheats defined in the text files of the cheat directory other than enabled.txt
CatalogExpected ==
    UNION {FoundCheats(f) : f \in {x \in call.files :
              EndsWith(x.name, DotTxt) /\ Lower(x.name) # EnabledTxtName}}

\* the mapping of the mod holds exactly the cheats of its cheat directory
CatalogLoaded ==
    /\ call.listed
    /\ DOMAIN call.pending = CatalogExpected
    /\ \A c \in DOMAIN call.pending : call.pending[c] = (c \in call.enabled)

(***************************************************************************)
(* C31: the Cheat Catalog locates a cheat-only mod's cheat directory by    *)
(* case-insensitive name match: every mod that scan classifies as          *)
(* cheat-only because of a top-level entry named cheats in any letter case *)
(* has the cheat definitions of that directory's text files loaded into    *)
(* its pending-cheat mapping, and files named enabled.txt in any letter    *)
(* case are excluded.                                                      *)
(***************************************************************************)
C31_CatalogAnyCase ==
    (call.fn = "catalog" /\ call.stage = 2 /\ call.cheat_only) => CatalogLoaded

\* C31 where the directory is spelt cheats or the filesystem ignores letter case
C31_CatalogResolvedName ==
    (/\ call.fn = "catalog" /\ call.stage = 2 /\ call.cheat_only
     /\ (CheatsName \in call.listing \/ ~call.case_sensitive)) => CatalogLoaded

(***************************************************************************)
(* Cheat selections across an apply and the rescan that follows it: two    *)
(* cheat-only mods C and D, each with a file cheats/c.txt defining some of *)
(* the cheats A and X, and a pending mapping over what they define.        *)
(***************************************************************************)
PersistMods == {<<"C">>, <<"D">>}

\* the pending mappings over the definitions defs
SelectionsOver(defs) ==
    {P \in [PersistMods -> UNION {[S -> BOOLEAN] : S \in SUBSET {<<"A">>, <<"X">>}}] :
        \A m \in PersistMods : DOMAIN P[m] = defs[m]}

InitPersist ==
    /\ ObjectOver({}) /\ root = PlainRoot
    /\ \E defs \in [PersistMods -> SUBSET {<<"A">>, <<"X">>}] :
       \E P \in SelectionsOver(defs) :
          call = [fn |-> "persist", defs |-> defs, pending |-> P, stage |-> 0,
                  file |-> <<>>, seeded |-> <<>>]

\* lines 270-284: the apply writes the enabled names of all mods into the one enabled.txt
PersistApply ==
    /\ call.fn = "persist" /\ call.stage = 0
    /\ call' = [call EXCEPT !.file = LinesFor(AllEnabledCheats(call.pending)), !.stage = 1]
    /\ UNCHANGED objVars

\* the cheat directory of mod m: the one file c.txt with a block for each cheat it defines
CheatDirOf(defs, m) ==
    {[name |-> <<"c">> \o DotTxt, blocks |-> {Block(c, <<"1">>) : c \in defs[m]}]}

\* the rescan finds the mods under their disabled names, and the mapping is seeded again
PersistReseed ==
    /\ call.fn = "persist" /\ call.stage = 1
    /\ call' = [call EXCEPT
                  !.seeded = [n \in {<<"~">> \o m : m \in PersistMods} |->
                                 SeedPending({CheatsName}, CheatDirOf(call.defs, strip_prefix(n)),
                                             LoadEnabledSet(call.file), TRUE)],
                  !.stage = 2]
    /\ UNCHANGED objVars

NextPersist == PersistApply \/ PersistReseed

SpecPersist == InitPersist /\ [][NextPersist]_vars

\* the mapping has been seeded again after the apply
Reseeded == call.fn = "persist" /\ call.stage = 2

\* the flag seeded for cheat c of the mod that was m before the apply
SeededFlag(m, c) == call.seeded[<<"~">> \o m][c]

\* no cheat name is enabled in one mod and disabled in another
PerNameSelection ==
    \A m, o \in PersistMods : \A c \in DOMAIN call.pending[m] \cap DOMAIN call.pending[o] :
        call.pending[m][c] = call.pending[o][c]

(***************************************************************************)
(* C32: pending cheat selections persist across apply and re-scan per      *)
(* (mod, cheat-name) pair: if apply succeeds with pendingCheats P and the  *)
(* caller then re-scans, the re-seeded pending flag of every pair          *)
(* (mod, cheat) equals P[mod][cheat], including when two cheat-only mods   *)
(* define a cheat of the same name and P enables it in one mod and         *)
(* disables it in the other.                                               *)
(***************************************************************************)
C32_PendingPersists ==
    Reseeded => \A m \in PersistMods : \A c \in DOMAIN call.pending[m] :
                    SeededFlag(m, c) = call.pending[m][c]

\* C32 for the selections that give a cheat name one flag in every mod defining it
C32_PendingPersistsPerName ==
    (Reseeded /\ PerNameSelection) =>
        \A m \in PersistMods : \A c \in DOMAIN call.pending[m] :
            SeededFlag(m, c) = call.pending[m][c]

(***************************************************************************)
(* The poll callback step by step.  check_apply_progress runs on the       *)
(* window's thread while the worker runs on its own: between two of its    *)
(* steps (a get from the queue, the test that the queue is empty, the test *)
(* that the thread is alive) the worker may put events and return.  The    *)
(* one Queue of the window holds what earlier runs left unread (leftover)  *)
(* and then the unread events of the run in flight.  call.at is where the  *)
(* callback stands: not scheduled, scheduled, or between the empty test    *)
(* and the alive test.                                                     *)
(***************************************************************************)
\* the applies that one window starts
MaxRuns == 2

\* self.progress_queue as the poller finds it
QueueNow == call.leftover \o SubSeq(progress_queue, call.read + 1, Len(progress_queue))

\* the window opens on a root of one mod directory at most
InitPoll ==
    /\ \E S \in {T \in InitialTrees : Cardinality(T) <= 1} : ObjectOver(S)
    /\ call = [fn |-> "poll", current_state |-> "idle", at |-> "none", read |-> 0,
               leftover |-> <<>>, started |-> 0, reported |-> "none"]

\* run_scan from the Scan/Refresh button, while the main frame shows and no worker runs
PollScan ==
    /\ call.fn = "poll" /\ call.current_state = "idle" /\ ~WorkerAlive
    /\ \E listing \in Listings(TopNames(dirs)) : ScanEffect(listing)
    /\ UNCHANGED <<fsVars, runVars, applies, call>>

\* get_ordered_mods_config: the rows of the list, one per scanned mod, with their checkboxes
RowsConfig == {o \in [1..Len(load_order) -> [name : Elements(load_order), enabled : BOOLEAN]] :
                 \A i \in 1..Len(load_order) : o[i].name = load_order[i]}

\* apply_changes and start_apply_worker: a worker thread is started once the one before
\* it has returned, and the poll is scheduled
PollApply ==
    /\ call.fn = "poll" /\ call.current_state = "idle" /\ call.started < MaxRuns
    /\ mods_path # <<>> /\ scanned /\ ~WorkerAlive
    /\ \E order \in RowsConfig, listing \in Listings(TopNames(dirs)), listOk \in BOOLEAN :
            /\ applies' = applies + 1
            /\ scanned' = FALSE
            /\ ordered_mods_config' = order
            /\ pending_cheats' = <<>>
            /\ temp_map' = <<>>
            /\ final_mod_list' = <<>>
            /\ enabled_romfs_index' = 0
            /\ ops_done' = 0
            /\ idx' = 1
            /\ dirs0' = dirs
            /\ IF ~listOk
               THEN /\ progress_queue' = Put(<<>>, Error("Failed to list mod directories", <<>>))
                    /\ current_mods' = <<>>
                    /\ pc' = "Failed"
               ELSE /\ progress_queue' = Put(<<>>, Status("Phase 1: Backing up current mods..."))
                    /\ current_mods' = listing
                    /\ pc' = "BackingUp"
    /\ call' = [call EXCEPT !.current_state = "working", !.at = "scheduled", !.read = 0,
                            !.leftover = QueueNow, !.started = call.started + 1,
                            !.reported = "none"]
    /\ UNCHANGED <<fsVars, scanVars>>

\* lines 988-1009: the queue is not empty, one event is taken; done or error ends the
\* callback with set_ui_state("idle") and run_scan()
PollGet ==
    /\ call.fn = "poll" /\ call.at = "scheduled"
    /\ QueueNow # <<>>
    /\ LET msg == Head(QueueNow)
           taken == IF call.leftover # <<>>
                    THEN [call EXCEPT !.leftover = Tail(call.leftover)]
                    ELSE [call EXCEPT !.read = call.read + 1]
       IN IF msg.type \in {"done", "error"}
          THEN /\ call' = [taken EXCEPT !.current_state = "idle", !.at = "none",
                                        !.reported = msg.type]
               /\ \E listing \in Listings(TopNames(dirs)) : ScanEffect(listing)
          ELSE /\ call' = taken
               /\ UNCHANGED <<scanVars, scanned>>
    /\ UNCHANGED <<fsVars, runVars, applies>>

\* line 988: progress_queue.empty() is true, the loop ends
PollEmpty ==
    /\ call.fn = "poll" /\ call.at = "scheduled"
    /\ QueueNow = <<>>
    /\ call' = [call EXCEPT !.at = "alive test"]
    /\ UNCHANGED objVars

\* lines 1010-1011: the callback is scheduled again if the thread is alive
PollAlive ==
    /\ call.fn = "poll" /\ call.at = "alive test"
    /\ call' = [call EXCEPT !.at = IF WorkerAlive THEN "scheduled" ELSE "none"]
    /\ UNCHANGED objVars

\* the steps of check_apply_progress
PollStep == PollGet \/ PollEmpty \/ PollAlive

NextPoll == PollScan \/ PollApply \/ PollStep \/ WorkerStep

SpecPoll == InitPoll /\ [][NextPoll]_vars

\* the worker thread and the poll callback are both scheduled again and again
FairPoll == SpecPoll /\ WF_vars(WorkerStep) /\ WF_vars(PollStep)

\* the window shows the progress overlay
Working == call.fn = "poll" /\ call.current_state = "working"

(***************************************************************************)
(* C33: every apply started from the UI eventually returns the UI to the   *)
(* idle state: under fair scheduling of the worker thread and of the poll  *)
(* callback, for every interleaving of the worker's final queue put and    *)
(* thread exit with the poller's queue-empty test and is_alive test, the   *)
(* terminal event of the run is eventually consumed by                     *)
(* check_apply_progress and current_state becomes idle again.              *)
(***************************************************************************)
C33_BackToIdle ==
    Working ~> (call.current_state = "idle" /\ call.reported # "none")

\* the poll callback is not scheduled any more, the window still shows the overlay
\* and a terminal event lies unread in the queue
C33_Stuck ==
    /\ Working /\ call.at = "none" /\ ~WorkerAlive
    /\ \E k \in 1..Len(QueueNow) : QueueNow[k].type \in {"done", "error"}

\* the event the poller reported is one the worker in flight has put and the poller has taken
OwnTerminalRead ==
    \E k \in 1..call.read : progress_queue[k].type = call.reported

(***************************************************************************)
(* C34: the poller only ever consumes events of the apply that is          *)
(* currently in flight: across any sequence of applies sharing the one     *)
(* progress queue, when check_apply_progress stops on a terminal event the *)
(* queue holds no event of that run, so that a later apply never reads a   *)
(* done or error left over from an earlier run and never reports success   *)
(* or failure before its own worker has emitted its terminal event.        *)
(***************************************************************************)
C34_OwnEventsOnly ==
    call.fn = "poll" =>
        /\ call.leftover = <<>>
        /\ call.reported # "none" => OwnTerminalRead

\* C34 for the first apply of the window
C34_OwnEventsFirstRun ==
    (call.fn = "poll" /\ call.started <= 1) =>
        /\ call.leftover = <<>>
        /\ call.reported # "none" => OwnTerminalRead

\* the second apply has been reported a success by a done event of the first,
\* while its own worker is still renaming
C34_ReportedEarly ==
    /\ call.fn = "poll" /\ call.started = 2
    /\ call.reported = "done" /\ ~HasType("done")
    /\ WorkerAlive

\* a directory directly under the root carries the temp suffix
TempLeft == \E n \in TopNames(dirs) : IsTempName(n)

\* every directory under the root at the start of the call is the special cheats folder
\* or has the clean name of some entry of the desired order other than the special one
OrderCoversRoot ==
    \A n \in TopNames(dirs0) :
        \/ n = special_cheats_folder_name
        \/ \E i \in Entries : /\ ~IsSpecial(i)
                              /\ strip_prefix(ordered_mods_config[i].name) = strip_prefix(n)

(***************************************************************************)
(* C35: when an apply ends with done and no rename failed, no directory    *)
(* under the root carries the __temp_rename__ suffix: every directory      *)
(* renamed to a temp name in phase 1 has been renamed to a final name in   *)
(* phase 2, for every desiredOrder, including one that omits a mod present *)
(* on disk.                                                                *)
(***************************************************************************)
C35_NoTempLeft ==
    (pc = "Done" /\ HasType("done")) => ~TempLeft

\* C35 for the desired orders that name every mod on disk, on a root of distinct clean names
C35_NoTempLeftCovered ==
    (pc = "Done" /\ HasType("done") /\ CleanNamesDistinct /\ OrderCoversRoot) => ~TempLeft

\* the call has ended, with done or with an error
ApplyEnded == pc \in {"Done", "Failed"}

\* every directory that lay directly under the root when the call started still does
AllStillTopLevel == \A id \in TopIds(dirs0) : dirs[id].parent = 0

(***************************************************************************)
(* C36: apply never merges or loses a mod: phase 1 gives distinct mod      *)
(* directories distinct temp names, so that after any apply (successful or *)
(* failed) the number of mod directories directly under the root equals    *)
(* the number before it and no mod directory has been moved inside         *)
(* another; this holds also when two directories on disk have the same     *)
(* clean name (for example 01_Foo and Foo, or ~Foo and .Foo).              *)
(***************************************************************************)
C36_NoMerge ==
    ApplyEnded =>
        /\ AllStillTopLevel
        /\ Cardinality({id \in TopIds(dirs) : id \in TopIds(dirs0)}) = Cardinality(TopIds(dirs0))

\* C36 on a root of distinct clean names
C36_NoMergeDistinct ==
    (ApplyEnded /\ CleanNamesDistinct) =>
        /\ AllStillTopLevel
        /\ Cardinality({id \in TopIds(dirs) : id \in TopIds(dirs0)}) = Cardinality(TopIds(dirs0))

\* a call that put done has left one mod directory inside another
C36_Merged ==
    /\ pc = "Done" /\ HasType("done")
    /\ \E a, b \in TopIds(dirs0) : a # b /\ dirs[a].parent = b

(***************************************************************************)
(* The final name of phase 2 on its own: a directory name is cleaned, the  *)
(* final name is built from the clean name, and the final name is cleaned  *)
(* by the next scan or apply.                                              *)
(***************************************************************************)
\* the values of enabled_romfs_index tried
IndexPool == {1, 10, 100}

InitRename ==
    /\ ObjectOver({}) /\ root = PlainRoot
    /\ \E name \in NamesOver(StripChars, MaxStripLen) \cup StripExamples,
          enabled \in BOOLEAN, index \in IndexPool :
          call = [fn |-> "final name", arg |-> name, enabled |-> enabled, index |-> index,
                  stage |-> 0, clean |-> <<>>, final |-> <<>>, again |-> <<>>]

\* line 383: clean_name = self.strip_prefix(mod_name)
CleanCall ==
    /\ call.fn = "final name" /\ call.stage = 0
    /\ call' = [call EXCEPT !.clean = strip_prefix(call.arg), !.stage = 1]
    /\ UNCHANGED objVars

\* lines 390-395: the final name; then strip_prefix of it, as the next scan computes it
FinalCall ==
    /\ call.fn = "final name" /\ call.stage = 1
    /\ LET final_name == IF call.enabled
                         THEN Format02(call.index) \o <<"_">> \o call.clean
                         ELSE <<"~">> \o call.clean
       IN call' = [call EXCEPT !.final = final_name, !.again = strip_prefix(final_name),
                               !.stage = 2]
    /\ UNCHANGED objVars

NextRename == CleanCall \/ FinalCall

SpecRename == InitRename /\ [][NextRename]_vars

\* the clean name begins with one of . ! ~ or with _
BeginsLikePrefix(c) == c # <<>> /\ (IsMarker(c[1]) \/ c[1] = "_")

(***************************************************************************)
(* C37: apply preserves every mod's identity: for every mod renamed in     *)
(* phase 2, strip_prefix(final name) equals the clean name the mod had     *)
(* before the apply (strip_prefix(NN_ + c) = c and strip_prefix(~ + c) = c *)
(* for every clean name c that strip_prefix can return), so repeated       *)
(* apply/scan cycles that toggle a mod between enabled and disabled never  *)
(* change its clean name.                                                  *)
(***************************************************************************)
C37_CleanNameKept ==
    (call.fn = "final name" /\ call.stage = 2) => call.again = call.clean

\* C37 for the numbered names, and for the disabled names whose clean name does not
\* begin with a marker character or an underscore
C37_CleanNameKeptPlain ==
    (call.fn = "final name" /\ call.stage = 2 /\ (call.enabled \/ ~BeginsLikePrefix(call.clean)))
        => call.again = call.clean

(***************************************************************************)
(* The names a successful apply leaves, listed again.  Of the entries of   *)
(* the desired order, up to MaxFollowed enabled ones are followed, each    *)
(* with the value enabled_romfs_index has when it is renamed, and up to    *)
(* two disabled ones; get_current_load_order then sorts their final names, *)
(* which os.listdir yields in any order.                                   *)
(***************************************************************************)
\* the enabled entries followed
MaxFollowed == 3

\* the ranks an enabled entry may have among the enabled entries
RankPool == {1, 2, 9, 10, 11, 99, 100, 101}

\* the clean names of the enabled entries, and of the disabled ones
EnabledCleanPool == {<<"A">>, <<"z">>, <<"2", "B">>}
DisabledCleanPool == {<<"B">>, <<"0", "C">>}

\* the entries followed: one clean name for each rank of R, no clean name twice
FollowedOver(R) ==
    {f \in [R -> EnabledCleanPool] : \A a, b \in R : a # b => f[a] # f[b]}

InitPriority ==
    /\ ObjectOver({}) /\ root = PlainRoot
    /\ \E R \in {X \in SUBSET RankPool : Cardinality(X) <= MaxFollowed} :
       \E f \in FollowedOver(R), D \in SUBSET DisabledCleanPool :
          call = [fn |-> "priority", ranks |-> R, clean |-> f, disabled |-> D, stage |-> 0,
                  numbered |-> <<>>, off |-> {}, result |-> <<>>]

\* lines 390-395: the final names of the entries followed
PriorityApply ==
    /\ call.fn = "priority" /\ call.stage = 0
    /\ call' = [call EXCEPT
                  !.numbered = [r \in call.ranks |-> Format02(r) \o <<"_">> \o call.clean[r]],
                  !.off = {<<"~">> \o c : c \in call.disabled},
                  !.stage = 1]
    /\ UNCHANGED objVars

\* get_current_load_order() on the directories the apply left
PriorityList ==
    /\ call.fn = "priority" /\ call.stage = 1
    /\ \E listing \in Listings({call.numbered[r] : r \in call.ranks} \cup call.off) :
          call' = [call EXCEPT
                     !.result = get_current_load_order(PlainRoot, "directory", listing).result,
                     !.stage = 2]
    /\ UNCHANGED objVars

NextPriority == PriorityApply \/ PriorityList

SpecPriority == InitPriority /\ [][NextPriority]_vars

\* the position of name n in the load order returned
PlaceOf(n) == CHOOSE k \in 1..Len(call.result) : call.result[k] = n

(***************************************************************************)
(* C38: the applied priority survives a re-scan: after a successful apply, *)
(* get_current_load_order lists the enabled (numbered) mods in exactly the *)
(* sequence they had in desiredOrder, for any number of enabled mods       *)
(* including more than 9 and more than 99, and lists every numbered mod    *)
(* before every ~-prefixed mod.                                            *)
(***************************************************************************)
C38_PrioritySurvives ==
    (call.fn = "priority" /\ call.stage = 2) =>
        /\ Len(call.result) = Cardinality(call.ranks) + Cardinality(call.off)
        /\ \A a, b \in call.ranks :
              a < b => PlaceOf(call.numbered[a]) < PlaceOf(call.numbered[b])
        /\ \A a \in call.ranks : \A n \in call.off :
              PlaceOf(call.numbered[a]) < PlaceOf(n)

\* the ninth, the tenth and the hundredth enabled mod are listed in that order, with
\* clean names whose text order is the opposite, before a disabled mod
C38_Witness ==
    /\ call.fn = "priority" /\ call.stage = 2
    /\ call.ranks = {9, 10, 100}
    /\ call.clean[9] = <<"z">> /\ call.clean[10] = <<"2", "B">> /\ call.clean[100] = <<"A">>
    /\ call.off # {}
    /\ SubSeq(call.result, 1, 3) = << <<"0", "9", "_", "z">>, <<"1", "0", "_", "2", "B">>,
                                      <<"1", "0", "0", "_", "A">> >>
====
